---- MODULE Spec2Model ----
(***************************************************************************)
(* Model of the breakdown and rebalancing engine of pwen/rebalancer        *)
(* (src/services/rebalancer.py) together with the stores it reads.         *)
(*                                                                         *)
(* Numbers.  The program computes on floats and rounds at output with      *)
(* round(x, 2).  The model computes on exact integers:                     *)
(*   - a holding's value is a whole number of cents;                       *)
(*   - an accumulated dollar total is a whole number of "fine" units,      *)
(*     one fine unit = 1/100 cent, so value * pct / 100 is exact for       *)
(*     integer weights pct;                                                *)
(*   - a reported percentage is a whole number of basis points (0.01%);    *)
(*   - a stored target_pct is a whole number of milli-percent (0.001%).    *)
(* round(x, 2) is RoundHalfEven to the cent / the basis point.             *)
(***************************************************************************)
EXTENDS Integers, Sequences, FiniteSets, TLC

\* ------------------------------------------------------------------ bounds
\* Longest holdings list handed to compute_breakdown.
MaxHoldings == 3

\* ------------------------------------------------------------- arithmetic
Abs(x) == IF x < 0 THEN -x ELSE x

\* Python's round(): nearest multiple, a tie goes to the even neighbour.
\* n / d with d # 0, result the rounded integer quotient.
RoundHalfEven(n, d) ==
    LET nn == IF d < 0 THEN -n ELSE n
        dd == Abs(d)
        q  == nn \div dd
        r  == nn - q * dd
    IN  IF 2 * r < dd THEN q
        ELSE IF 2 * r > dd THEN q + 1
        ELSE IF q % 2 = 0 THEN q ELSE q + 1

\* round(v, 2) of a dollar amount held in fine units: the result in cents.
RoundMoney(fine) == RoundHalfEven(fine, 100)

\* round(v / total_value * 100, 2): the result in basis points.
\* v in fine units, total_value in cents.
RoundPct(v, total_value) == RoundHalfEven(v * 100, total_value)

\* ----------------------------------------------------------------- labels
\* Labels in the order Python's sorted() puts these strings.
LabelOrder ==
    << "Cash", "DM", "EM", "Equities", "Global",
       "Long-Term Treasuries", "Other", "US" >>

Labels == { LabelOrder[i] : i \in 1..Len(LabelOrder) }

Dimensions == { "region", "category" }

\* ------------------------------------------------------------ input space
Tickers == { "VTI", "VXUS", "TLT" }

\* _get_latest_holdings walks the brokerages in this order, which is also
\* the order sorted() gives them.
BrokerageOrder == << "fidelity", "schwab" >>

Brokerages == { BrokerageOrder[i] : i \in 1..Len(BrokerageOrder) }

Hold(t, v, q, b) == [ticker |-> t, value |-> v, quantity |-> q, brokerage |-> b]

\* Rows a snapshot can hold (value in cents).  A parser keeps a row unless
\* value and quantity are both 0, and keeps negative values.
HoldingChoices ==
    { Hold("VTI",  600,   2, "fidelity"),
      Hold("VXUS", 1,     1, "fidelity"),
      Hold("TLT",  1,     1, "fidelity"),
      Hold("TLT",  0,     3, "fidelity"),
      Hold("VTI",  1,     1, "schwab"),
      Hold("VXUS", -1,    1, "schwab"),
      Hold("TLT",  400,   4, "schwab"),
      Hold("VXUS", 6,     2, "schwab") }

\* A distribution is a JSON object: label/weight pairs in iteration order.
W(l, w) == [label |-> l, weight |-> w]

\* classifications.get(ticker) of a ticker without a row.
NoClass == [present |-> FALSE, region_breakdown |-> << >>,
            category_breakdown |-> << >>]

Class(r, c) == [present |-> TRUE, region_breakdown |-> r,
                category_breakdown |-> c]

\* Rows the classification table can hold for a ticker: none, the entry the
\* classifier stores, or one written through the manual update endpoint
\* (any JSON, so weights need not sum to 100 and an object may be empty).
ClassChoices(t) ==
    IF t = "VTI" THEN
        { NoClass,
          Class(<< W("US", 60), W("EM", 40) >>, << W("Equities", 100) >>) }
    ELSE IF t = "VXUS" THEN
        { Class(<< W("DM", 78), W("EM", 22) >>, << W("Equities", 100) >>),
          Class(<< W("DM", 50), W("EM", 30) >>,
                << W("Equities", 60), W("Other", 60) >>) }
    ELSE
        { NoClass,
          Class(<< W("US", 100) >>, << W("Long-Term Treasuries", 100) >>),
          Class(<< >>, << >>) }

Target(d, l, p) == [dimension |-> d, label |-> l, target_pct |-> p]

\* Target sets save_targets accepts for a dimension (target_pct in
\* milli-percent, the sum within 1 of 100), or the never-saved empty set.
TargetChoices(d) ==
    IF d = "region" THEN
        { {},
          { Target(d, "US", 60000), Target(d, "DM", 30000),
            Target(d, "EM", 10000) } }
    ELSE
        { {},
          { Target(d, "Equities", 49500),
            Target(d, "Long-Term Treasuries", 49490),
            Target(d, "Cash", 510), Target(d, "Other", 500) },
          { Target(d, "Equities", 33333),
            Target(d, "Long-Term Treasuries", 66667) } }

\* ------------------------------------------------------------------ state
VARIABLES
    holdings,         \* the holdings list a request works on
    classifications,  \* the lookup {c.ticker: c} of the ticker_classifications
                      \* rows: ticker -> row or NoClass
    targets,          \* target_allocations table: set of rows
    pc,               \* how far the request got: "upload", "start",
                      \* "breakdown", "rebalance", "trades"
    breakdown,        \* what compute_breakdown returned (from pc = "breakdown" on)
    rebalance,        \* what compute_rebalance returned (at pc = "rebalance")
    trades,           \* what suggest_trades returned (at pc = "trades")
    upload,           \* the position rows of the CSV file being uploaded
    request,          \* the last POST /api/targets body and its status
    snapshots,        \* snapshots table: set of rows
    holding_rows,     \* holdings table: rows in insertion order
    snapshot_seq,     \* the last value of the snapshots id sequence
    ticker_classifications,  \* ticker_classifications table: set of rows
    analyses,         \* portfolio_analyses table: rows in id order
    response          \* the last request to the stores and its outcome

store_vars == << snapshots, holding_rows, snapshot_seq,
                ticker_classifications, analyses, response >>

vars == << holdings, classifications, targets, pc, breakdown, rebalance,
           trades, upload, request, snapshots, holding_rows, snapshot_seq,
           ticker_classifications, analyses, response >>

\* No request has reached the stores.
NoResponse == [op |-> "", status |-> 0, arg |-> "", analysis |-> ""]

\* The tables after db.create_all(): no rows, the id sequence unused.
EmptyStore ==
    /\ snapshots = {}
    /\ holding_rows = << >>
    /\ snapshot_seq = 0
    /\ ticker_classifications = {}
    /\ analyses = << >>
    /\ response = NoResponse

\* ---------------------------------------------------------------- helpers
RECURSIVE SumValuesAbs(_)
\* Variant of SumValues: the total counts every value by its magnitude.
SumValuesAbs(hs) ==
    IF hs = << >> THEN 0 ELSE Abs(Head(hs).value) + SumValuesAbs(Tail(hs))

RECURSIVE SumValues(_)
\* sum(h.value for h in holdings)
SumValues(hs) ==
    IF hs = << >> THEN 0 ELSE Head(hs).value + SumValues(Tail(hs))

\* Position of the entry of an insertion-ordered dict with this key, 0 if
\* the key is not in it.
IndexOf(dict, field, key) ==
    IF \E i \in 1..Len(dict) : dict[i][field] = key
    THEN CHOOSE i \in 1..Len(dict) : dict[i][field] = key
    ELSE 0

\* Variant of StableSortDesc: the elements stay in their original order.
KeepOrder(seq, keys) == seq

RECURSIVE StableSortDesc(_, _)
\* list.sort(key=..., reverse=True) and sorted(key=lambda x: -key): elements
\* by descending key, equal keys in their original order.  keys[i] is the
\* key of seq[i].
StableSortDesc(seq, keys) ==
    IF seq = << >> THEN << >>
    ELSE
        LET n     == Len(seq)
            front == StableSortDesc(SubSeq(seq, 1, n - 1), SubSeq(keys, 1, n - 1))
            fkeys == StableSortDesc(SubSeq(keys, 1, n - 1), SubSeq(keys, 1, n - 1))
            p     == Cardinality({ i \in 1..(n - 1) : fkeys[i] >= keys[n] })
        IN  SubSeq(front, 1, p) \o << seq[n] >> \o SubSeq(front, p + 1, n - 1)

RECURSIVE SortedBrokerages(_, _)
\* sorted(info["brokerages"]): the set as a list in ascending order.
SortedBrokerages(bs, i) ==
    IF i > Len(BrokerageOrder) THEN << >>
    ELSE (IF BrokerageOrder[i] \in bs THEN << BrokerageOrder[i] >> ELSE << >>)
         \o SortedBrokerages(bs, i + 1)

\* ------------------------------------------------------ compute_breakdown
RECURSIVE AggregateTickersOverwrite(_, _)
\* Variant of AggregateTickers: value is assigned (=) instead of summed (+=).
AggregateTickersOverwrite(hs, ticker_values) ==
    IF hs = << >> THEN ticker_values
    ELSE
        LET h     == Head(hs)
            seen  == IndexOf(ticker_values, "ticker", h.ticker)
            tv    == IF seen = 0
                     THEN Append(ticker_values,
                                 [ticker |-> h.ticker, value |-> 0,
                                  quantity |-> 0, brokerages |-> {}])
                     ELSE ticker_values
            i     == IF seen = 0 THEN Len(tv) ELSE seen
        IN  AggregateTickersOverwrite(Tail(hs),
                [tv EXCEPT ![i].value = h.value,
                           ![i].quantity = @ + h.quantity,
                           ![i].brokerages = @ \cup { h.brokerage }])

RECURSIVE AggregateTickers(_, _)
\* The loop that groups holdings by ticker: one entry per ticker in first-
\* seen order, value and quantity summed, brokerages collected in a set.
AggregateTickers(hs, ticker_values) ==
    IF hs = << >> THEN ticker_values
    ELSE
        LET h     == Head(hs)
            seen  == IndexOf(ticker_values, "ticker", h.ticker)
            tv    == IF seen = 0
                     THEN Append(ticker_values,
                                 [ticker |-> h.ticker, value |-> 0,
                                  quantity |-> 0, brokerages |-> {}])
                     ELSE ticker_values
            i     == IF seen = 0 THEN Len(tv) ELSE seen
        IN  AggregateTickers(Tail(hs),
                [tv EXCEPT ![i].value = @ + h.value,
                           ![i].quantity = @ + h.quantity,
                           ![i].brokerages = @ \cup { h.brokerage }])

\* The distribution used when a ticker has no row, or its row's is empty.
DefaultRegion == << W("US", 100) >>

DefaultCategory == << W("Equities", 100) >>

RECURSIVE SumWeights(_)
\* Variant of RegionOf, its helper: the sum of the weights of a distribution.
SumWeights(bd) ==
    IF bd = << >> THEN 0 ELSE Head(bd).weight + SumWeights(Tail(bd))

\* Variant of RegionOf: a stored distribution whose weights do not sum to
\* 100 is rejected and the default used.
RegionOfRejecting(cls, ticker) ==
    IF /\ ticker \in DOMAIN cls
       /\ cls[ticker].present
       /\ cls[ticker].region_breakdown # << >>
       /\ SumWeights(cls[ticker].region_breakdown) = 100
    THEN cls[ticker].region_breakdown
    ELSE DefaultRegion

\* classification.region_breakdown or {"US": 100}, and the else branch.
RegionOf(cls, ticker) ==
    IF /\ ticker \in DOMAIN cls
       /\ cls[ticker].present
       /\ cls[ticker].region_breakdown # << >>
    THEN cls[ticker].region_breakdown
    ELSE DefaultRegion

\* Variant of CategoryOf: the stored category distribution is ignored.
CategoryOfDefaultOnly(cls, ticker) == DefaultCategory

\* classification.category_breakdown or {"Equities": 100}, and the else branch.
CategoryOf(cls, ticker) ==
    IF /\ ticker \in DOMAIN cls
       /\ cls[ticker].present
       /\ cls[ticker].category_breakdown # << >>
    THEN cls[ticker].category_breakdown
    ELSE DefaultCategory

\* Variant of Contribution: the weight is divided by 100 in integers first
\* (pct // 100), so a partial weight contributes nothing.
ContributionFloor(value, pct) == value * (pct \div 100) * 100

\* What one weight of a distribution adds to its label: value * pct / 100,
\* value in cents, the result in fine units.
Contribution(value, pct) == value * pct

RECURSIVE DistributeOverwrite(_, _, _)
\* Variant of Distribute: a label already in totals is overwritten by the
\* new contribution instead of added to.
DistributeOverwrite(totals, value, bd) ==
    IF bd = << >> THEN totals
    ELSE
        LET e    == Head(bd)
            seen == IndexOf(totals, "label", e.label)
            add  == value * e.weight
        IN  DistributeOverwrite(
                IF seen = 0
                THEN Append(totals, [label |-> e.label, total |-> add])
                ELSE [totals EXCEPT ![seen].total = add],
                value, Tail(bd))

RECURSIVE Distribute(_, _, _)
\* totals[label] = totals.get(label, 0) + value * pct / 100 for every pair
\* of the distribution; totals is an insertion-ordered dict in fine units.
Distribute(totals, value, bd) ==
    IF bd = << >> THEN totals
    ELSE
        LET e    == Head(bd)
            seen == IndexOf(totals, "label", e.label)
            add  == Contribution(value, e.weight)
        IN  Distribute(
                IF seen = 0
                THEN Append(totals, [label |-> e.label, total |-> 0 + add])
                ELSE [totals EXCEPT ![seen].total = @ + add],
                value, Tail(bd))

\* The record appended to holding_details for one ticker group.
HoldingDetail(info, total_value, region_bd, category_bd) ==
    [ ticker     |-> info.ticker,
      value      |-> RoundMoney(info.value * 100),
      pct        |-> RoundPct(info.value * 100, total_value),
      quantity   |-> info.quantity,
      brokerages |-> SortedBrokerages(info.brokerages, 1),
      region     |-> region_bd,
      category   |-> category_bd ]

RECURSIVE DistributeTickers(_, _, _, _)
\* The loop over ticker_values.items(): acc carries region_totals,
\* category_totals and holding_details.
DistributeTickers(ticker_values, cls, total_value, acc) ==
    IF ticker_values = << >> THEN acc
    ELSE
        LET info        == Head(ticker_values)
            region_bd   == RegionOf(cls, info.ticker)
            category_bd == CategoryOf(cls, info.ticker)
        IN  DistributeTickers(Tail(ticker_values), cls, total_value,
                [ region_totals   |->
                      Distribute(acc.region_totals, info.value, region_bd),
                  category_totals |->
                      Distribute(acc.category_totals, info.value, category_bd),
                  holding_details |->
                      Append(acc.holding_details,
                             HoldingDetail(info, total_value,
                                           region_bd, category_bd)) ])

\* Variant of ReportTotals: pct is taken from the value already rounded to
\* the cent.
ReportTotalsFromRounded(totals, total_value) ==
    LET sorted == StableSortDesc(totals,
                      [i \in 1..Len(totals) |-> totals[i].total])
    IN  [ i \in 1..Len(sorted) |->
            [ label |-> sorted[i].label,
              value |-> RoundMoney(sorted[i].total),
              pct   |-> RoundPct(RoundMoney(sorted[i].total) * 100, total_value) ] ]

\* {k: {"value": round(v, 2), "pct": round(v / total_value * 100, 2)}
\*  for k, v in sorted(totals.items(), key=lambda x: -x[1])}
\* totals in fine units, total_value in cents.
ReportTotals(totals, total_value) ==
    LET sorted == StableSortDesc(totals,
                      [i \in 1..Len(totals) |-> totals[i].total])
    IN  [ i \in 1..Len(sorted) |->
            [ label |-> sorted[i].label,
              value |-> RoundMoney(sorted[i].total),
              pct   |-> RoundPct(sorted[i].total, total_value) ] ]

EmptyBreakdown ==
    [ total_value |-> 0, by_region |-> << >>, by_category |-> << >>,
      holdings |-> << >> ]

compute_breakdown(hs, cls) ==
    LET total_value == SumValues(hs)
    IN  IF total_value = 0 THEN EmptyBreakdown
        ELSE
            LET acc == DistributeTickers(AggregateTickers(hs, << >>), cls,
                           total_value,
                           [ region_totals |-> << >>,
                             category_totals |-> << >>,
                             holding_details |-> << >> ])
                details == acc.holding_details
            IN  [ total_value |-> RoundMoney(total_value * 100),
                  by_region   |-> ReportTotals(acc.region_totals, total_value),
                  by_category |-> ReportTotals(acc.category_totals, total_value),
                  holdings    |->
                      StableSortDesc(details,
                          [i \in 1..Len(details) |-> details[i].value]) ]

\* ------------------------------------------------------ compute_rebalance
\* drift above which a label is sold and below whose negative it is bought,
\* in basis points (0.5 percentage points).
DriftBand == 50

\* round(x, 2) of a percentage held in milli-percent: the result in basis
\* points.
RoundMilli(milli) == RoundHalfEven(milli, 10)

\* Variant of ActionOf: the band excludes its end points (>= and <=).
ActionOfInclusive(drift) ==
    IF drift >= DriftBand THEN "sell"
    ELSE IF drift <= -DriftBand THEN "buy"
    ELSE "hold"

\* Variant of ActionOf: the two actions are exchanged.
ActionOfReversed(drift) ==
    IF drift > DriftBand THEN "buy"
    ELSE IF drift < -DriftBand THEN "sell"
    ELSE "hold"

\* "sell" if drift > 0.5 else ("buy" if drift < -0.5 else "hold")
ActionOf(drift) ==
    IF drift > DriftBand THEN "sell"
    ELSE IF drift < -DriftBand THEN "buy"
    ELSE "hold"

\* Variant of TargetsOf: the query is not filtered by dimension.
TargetsOfAnyDimension(tgts, dimension) == tgts

\* {t.label: t.target_pct for t in TargetAllocation.query.filter_by(...)}:
\* the rows of one dimension.
TargetsOf(tgts, dimension) == { t \in tgts : t.dimension = dimension }

\* targets.get(label, 0), in milli-percent.
TargetPct(rows, label) ==
    IF \E t \in rows : t.label = label
    THEN (CHOOSE t \in rows : t.label = label).target_pct
    ELSE 0

\* current.get(label, {}).get(field, 0)
CurrentField(current, label, field) ==
    LET i == IndexOf(current, "label", label)
    IN  IF i = 0 THEN 0 ELSE current[i][field]

RECURSIVE SortedLabels(_, _)
\* sorted(set(...)): the labels of the set in ascending order.
SortedLabels(ls, i) ==
    IF i > Len(LabelOrder) THEN << >>
    ELSE (IF LabelOrder[i] \in ls THEN << LabelOrder[i] >> ELSE << >>)
         \o SortedLabels(ls, i + 1)

\* Variant of AllLabels: only the labels held in the breakdown.
AllLabelsCurrentOnly(current, rows) ==
    SortedLabels({ current[i].label : i \in 1..Len(current) }, 1)

\* Variant of AllLabels: only the labels that have a target.
AllLabelsTargetsOnly(current, rows) ==
    SortedLabels({ t.label : t \in rows }, 1)

\* Variant of AllLabels: the labels are not sorted; those of the breakdown
\* come first in its own order, then the labels that only have a target.
AllLabelsInsertionOrder(current, rows) ==
    [ i \in 1..Len(current) |-> current[i].label ]
    \o SortedLabels({ t.label : t \in rows }
                    \ { current[i].label : i \in 1..Len(current) }, 1)

\* sorted(set(list(current.keys()) + list(targets.keys())))
AllLabels(current, rows) ==
    SortedLabels({ current[i].label : i \in 1..Len(current) }
                 \cup { t.label : t \in rows }, 1)

\* Variant of RebalanceItem: drift is target_pct - current_pct.
RebalanceItemSwapped(label, total_value, current, rows) ==
    LET current_pct   == CurrentField(current, label, "pct")
        current_value == CurrentField(current, label, "value")
        target_pct    == TargetPct(rows, label)
        target_value  == total_value * target_pct
        drift         == RoundMilli(target_pct - current_pct * 10)
        amount        == RoundHalfEven(Abs(current_value * 100000 - target_value),
                                       100000)
    IN  [ label         |-> label,
          current_pct   |-> RoundMilli(current_pct * 10),
          target_pct    |-> RoundMilli(target_pct),
          current_value |-> RoundMoney(current_value * 100),
          target_value  |-> RoundHalfEven(target_value, 100000),
          drift         |-> drift,
          action        |-> ActionOf(drift),
          amount        |-> amount ]

\* The dict appended to result for one label.  total_value, current_value
\* in cents; current_pct in basis points; target_pct in milli-percent.
RebalanceItem(label, total_value, current, rows) ==
    LET current_pct   == CurrentField(current, label, "pct")
        current_value == CurrentField(current, label, "value")
        target_pct    == TargetPct(rows, label)
        \* total_value * target_pct / 100 in units of 1/100000 cent
        target_value  == total_value * target_pct
        drift         == RoundMilli(current_pct * 10 - target_pct)
        amount        == RoundHalfEven(Abs(current_value * 100000 - target_value),
                                       100000)
    IN  [ label         |-> label,
          current_pct   |-> RoundMilli(current_pct * 10),
          target_pct    |-> RoundMilli(target_pct),
          current_value |-> RoundMoney(current_value * 100),
          target_value  |-> RoundHalfEven(target_value, 100000),
          drift         |-> drift,
          action        |-> ActionOf(drift),
          amount        |-> amount ]

\* Variant of SortByAbsDrift: the sort key is the signed drift.
SortBySignedDrift(result) ==
    StableSortDesc(result, [ i \in 1..Len(result) |-> result[i].drift ])

\* result.sort(key=lambda x: abs(x["drift"]), reverse=True)
SortByAbsDrift(result) ==
    StableSortDesc(result, [ i \in 1..Len(result) |-> Abs(result[i].drift) ])

compute_rebalance(bd, dimension, tgts) ==
    LET total_value == bd.total_value
        current     == IF dimension = "region" THEN bd.by_region
                       ELSE bd.by_category
        rows        == TargetsOf(tgts, dimension)
    IN  IF total_value = 0 THEN << >>
        ELSE IF rows = {} THEN << >>
        ELSE
            LET all_labels == AllLabels(current, rows)
                result ==
                    [ i \in 1..Len(all_labels) |->
                        RebalanceItem(all_labels[i], total_value, current, rows) ]
            IN  SortByAbsDrift(result)

\* ---------------------------------------------------------- suggest_trades
\* A group of three digits after the first group of a "," grouped number.
Pad3(n) ==
    IF n < 10 THEN "00" \o ToString(n)
    ELSE IF n < 100 THEN "0" \o ToString(n)
    ELSE ToString(n)

RECURSIVE GroupThousands(_)
\* The "," option of the format specification: digits in groups of three.
GroupThousands(n) ==
    IF n < 1000 THEN ToString(n)
    ELSE GroupThousands(n \div 1000) \o "," \o Pad3(n % 1000)

\* f"{amount:,.0f}" of an amount in cents: whole dollars, ties to even.
FormatDollars(amount) == GroupThousands(RoundHalfEven(amount, 100))

\* The string appended for one item of category_rebal, if any.
CategoryAction(item) ==
    IF item.action = "sell"
    THEN << "Sell $" \o FormatDollars(item.amount) \o " of " \o item.label >>
    ELSE IF item.action = "buy"
    THEN << "Buy $" \o FormatDollars(item.amount) \o " of " \o item.label >>
    ELSE << >>

\* The string appended for one item of region_rebal, if any.
RegionAction(item) ==
    IF item.action = "sell"
    THEN << "Reduce " \o item.label \o " by $" \o FormatDollars(item.amount) >>
    ELSE IF item.action = "buy"
    THEN << "Increase " \o item.label \o " by $" \o FormatDollars(item.amount) >>
    ELSE << >>

\* Variant of CategoryActions: the strings of the sell items, then those
\* of the buy items.
CategoryActionsSellFirst(items) ==
    LET sells == SelectSeq(items, LAMBDA it : it.action = "sell")
        buys  == SelectSeq(items, LAMBDA it : it.action = "buy")
    IN  [ i \in 1..Len(sells) |-> CategoryAction(sells[i])[1] ]
            \o [ i \in 1..Len(buys) |-> CategoryAction(buys[i])[1] ]

RECURSIVE CategoryActions(_)
\* for item in category_rebal: ...
CategoryActions(items) ==
    IF items = << >> THEN << >>
    ELSE CategoryAction(Head(items)) \o CategoryActions(Tail(items))

RECURSIVE RegionActions(_)
\* for item in region_rebal: ...
RegionActions(items) ==
    IF items = << >> THEN << >>
    ELSE RegionAction(Head(items)) \o RegionActions(Tail(items))

RECURSIVE Join(_, _)
\* sep.join(strs)
Join(strs, sep) ==
    IF strs = << >> THEN ""
    ELSE IF Len(strs) = 1 THEN strs[1]
    ELSE strs[1] \o sep \o Join(Tail(strs), sep)

\* Variant of Summary: the joined string even when there is no action.
SummaryJoinOnly(actions) == Join(actions, "; ")

\* "; ".join(actions) if actions else "Portfolio is balanced!"
Summary(actions) ==
    IF actions # << >> THEN Join(actions, "; ") ELSE "Portfolio is balanced!"

\* Variant of suggest_trades: the region loop runs before the category loop.
suggest_trades_region_first(bd, tgts) ==
    LET region_rebal   == compute_rebalance(bd, "region", tgts)
        category_rebal == compute_rebalance(bd, "category", tgts)
        actions        == RegionActions(region_rebal)
                              \o CategoryActions(category_rebal)
    IN  [ region   |-> region_rebal,
          category |-> category_rebal,
          summary  |-> Summary(actions) ]

suggest_trades(bd, tgts) ==
    LET region_rebal   == compute_rebalance(bd, "region", tgts)
        category_rebal == compute_rebalance(bd, "category", tgts)
        actions        == CategoryActions(category_rebal)
                              \o RegionActions(region_rebal)
    IN  [ region   |-> region_rebal,
          category |-> category_rebal,
          summary  |-> Summary(actions) ]

\* -------------------------------------------------------- state machine
\* Lists _get_latest_holdings can return: the fidelity snapshot's holdings,
\* then the schwab snapshot's.
HoldingLists ==
    { hs \in UNION { [1..n -> HoldingChoices] : n \in 0..MaxHoldings } :
        \A i, j \in 1..Len(hs) :
            (i < j) => ~(hs[i].brokerage = "schwab" /\ hs[j].brokerage = "fidelity") }

\* Values of the result variables before the operation has run.
NoRebalance == [dimension |-> "category", items |-> << >>]

NoTrades == [region |-> << >>, category |-> << >>, summary |-> ""]

NoRequest == [dimension |-> "", allocations |-> << >>, status |-> 0]

ClassStores == { c \in [Tickers -> UNION { ClassChoices(t) : t \in Tickers }] :
                   \A t \in Tickers : c[t] \in ClassChoices(t) }

Init ==
    /\ EmptyStore
    /\ holdings \in HoldingLists
    /\ classifications \in ClassStores
    /\ \E r \in TargetChoices("region"), c \in TargetChoices("category") :
           targets = r \cup c
    /\ pc = "start"
    /\ breakdown = EmptyBreakdown
    /\ rebalance = NoRebalance
    /\ trades = NoTrades
    /\ upload = << >>
    /\ request = NoRequest

\* Variant of ComputeBreakdown: the default classification of a held
\* ticker without a row is written to the classification store.
ComputeBreakdownStoringDefaults ==
    /\ pc = "start"
    /\ breakdown' = compute_breakdown(holdings, classifications)
    /\ pc' = "breakdown"
    /\ classifications' =
           [ t \in Tickers |->
               IF /\ ~classifications[t].present
                  /\ \E i \in 1..Len(holdings) : holdings[i].ticker = t
               THEN Class(DefaultRegion, DefaultCategory)
               ELSE classifications[t] ]
    /\ UNCHANGED << holdings, targets, rebalance, trades, upload, request >>
    /\ UNCHANGED store_vars

\* GET /api/breakdown: the breakdown of the current holdings.
ComputeBreakdown ==
    /\ pc = "start"
    /\ breakdown' = compute_breakdown(holdings, classifications)
    /\ pc' = "breakdown"
    /\ UNCHANGED << holdings, classifications, targets, rebalance, trades,
                    upload, request >>
    /\ UNCHANGED store_vars

\* compute_rebalance on that breakdown for one dimension.
ComputeRebalance(dimension) ==
    /\ pc = "breakdown"
    /\ pc' = "rebalance"
    /\ rebalance' = [ dimension |-> dimension,
                      items |-> compute_rebalance(breakdown, dimension, targets) ]
    /\ UNCHANGED << holdings, classifications, targets, breakdown, trades,
                    upload, request >>
    /\ UNCHANGED store_vars

Next ==
    \/ ComputeBreakdown
    \/ \E d \in Dimensions : ComputeRebalance(d)

Spec == Init /\ [][Next]_vars

\* ---------------------------------------- GET /api/rebalance, whole handler
\* Target sets for the trade suggestions: as TargetChoices, with an even
\* split of the category dimension.
TradeTargetChoices(d) ==
    IF d = "region" THEN TargetChoices(d)
    ELSE
        { {},
          { Target(d, "Equities", 49500),
            Target(d, "Long-Term Treasuries", 49490),
            Target(d, "Cash", 510), Target(d, "Other", 500) },
          { Target(d, "Equities", 50000),
            Target(d, "Long-Term Treasuries", 50000) } }

InitTrades ==
    /\ EmptyStore
    /\ holdings \in HoldingLists
    /\ classifications \in ClassStores
    /\ \E r \in TradeTargetChoices("region"), c \in TradeTargetChoices("category") :
           targets = r \cup c
    /\ pc = "start"
    /\ breakdown = EmptyBreakdown
    /\ rebalance = NoRebalance
    /\ trades = NoTrades
    /\ upload = << >>
    /\ request = NoRequest

\* suggest_trades on the breakdown of the holdings.
SuggestTrades ==
    /\ pc = "breakdown"
    /\ pc' = "trades"
    /\ trades' = suggest_trades(breakdown, targets)
    /\ UNCHANGED << holdings, classifications, targets, breakdown, rebalance,
                    upload, request >>
    /\ UNCHANGED store_vars

NextTrades ==
    \/ ComputeBreakdown
    \/ SuggestTrades

SpecTrades == InitTrades /\ [][NextTrades]_vars

\* ------------------------------------------ upload: parse_fidelity_csv
\* A position row of the CSV file: Symbol, Current Value (cents), Quantity.
Row(s, v, q) == [symbol |-> s, value |-> v, quantity |-> q]

\* Rows of a Fidelity export: symbols in either letter case, a row without
\* value and quantity, and the cash line.  The symbols carry no blanks or
\* asterisks for strip() to remove.
RowChoices ==
    { Row("VTI",  600, 2),
      Row("vti",  1,   1),
      Row("Vxus", 6,   2),
      Row("TLT",  400, 4),
      Row("tlt",  0,   0),
      Row("Cash", 5,   5) }

\* str.upper() on the symbols of the rows.
UpperTable ==
    << << "vti", "VTI" >>, << "Vxus", "VXUS" >>, << "tlt", "TLT" >>,
       << "Cash", "CASH" >> >>

\* Variant of Upper: the symbol is kept as written.
AsWritten(s) == s

\* ticker.upper()
Upper(s) ==
    IF \E i \in 1..Len(UpperTable) : UpperTable[i][1] = s
    THEN UpperTable[CHOOSE i \in 1..Len(UpperTable) : UpperTable[i][1] = s][2]
    ELSE s

\* The rows the loop skips: no symbol, a non-position line, or neither
\* value nor quantity.
SkipsRow(row) ==
    \/ row.symbol = ""
    \/ Upper(row.symbol) \in { "CASH", "PENDING ACTIVITY", "CORE" }
    \/ (row.value = 0 /\ row.quantity = 0)

RECURSIVE parse_fidelity_csv(_)
\* The normalized holdings of the rows, in file order.
parse_fidelity_csv(rows) ==
    IF rows = << >> THEN << >>
    ELSE
        LET row == Head(rows)
        IN  (IF SkipsRow(row) THEN << >>
             ELSE << Hold(Upper(row.symbol), row.value, row.quantity, "fidelity") >>)
                \o parse_fidelity_csv(Tail(rows))

UploadLists == UNION { [1..n -> RowChoices] : n \in 0..MaxHoldings }

InitUpload ==
    /\ EmptyStore
    /\ upload \in UploadLists
    /\ holdings = << >>
    /\ classifications \in ClassStores
    /\ targets = {}
    /\ pc = "upload"
    /\ breakdown = EmptyBreakdown
    /\ rebalance = NoRebalance
    /\ trades = NoTrades
    /\ request = NoRequest

\* The file is parsed; its holdings are those of the new snapshot, the
\* latest and only one.
ParseUpload ==
    /\ pc = "upload"
    /\ holdings' = parse_fidelity_csv(upload)
    /\ pc' = "start"
    /\ UNCHANGED << classifications, targets, breakdown, rebalance, trades,
                    upload, request >>
    /\ UNCHANGED store_vars

NextUpload ==
    \/ ParseUpload
    \/ ComputeBreakdown

SpecUpload == InitUpload /\ [][NextUpload]_vars

\* ------------------------------------------------------- PUT /api/targets
\* An element of the "allocations" array: a JSON object with the keys in
\* keys (target_pct in milli-percent).
Alloc(l, p) == [keys |-> { "label", "target_pct" }, label |-> l, target_pct |-> p]

AllocNoLabel(p) == [keys |-> { "target_pct" }, label |-> "", target_pct |-> p]

AllocNoPct(l) == [keys |-> { "label" }, label |-> l, target_pct |-> 0]

\* Request bodies: accepted ones, sums off by more than 1, sums at the
\* edge of the tolerance, a repeated label, objects lacking a key.
AllocationChoices ==
    { << >>,
      << Alloc("US", 100000) >>,
      << Alloc("US", 60000), Alloc("DM", 30000), Alloc("EM", 10000) >>,
      << Alloc("Equities", 50000), Alloc("Long-Term Treasuries", 50000) >>,
      << Alloc("Equities", 60000), Alloc("Cash", 41000) >>,
      << Alloc("Equities", 60000), Alloc("Cash", 41001) >>,
      << Alloc("US", 50000), Alloc("DM", 30000) >>,
      << Alloc("US", 60000), Alloc("US", 40000) >>,
      << Alloc("Global", 60000), AllocNoLabel(40000) >>,
      << Alloc("Global", 99500), AllocNoPct("Other") >> }

RequestDimensions == { "region", "category", "sector" }

\* Variant of SumTargetPct: the sum is taken to be 100 whatever the body.
SumAlways100(allocations) == 100000

RECURSIVE SumTargetPct(_)
\* sum(a.get("target_pct", 0) for a in allocations)
SumTargetPct(allocations) ==
    IF allocations = << >> THEN 0
    ELSE (IF "target_pct" \in Head(allocations).keys
          THEN Head(allocations).target_pct ELSE 0)
             + SumTargetPct(Tail(allocations))

\* Variant of DeleteDimension: no row is deleted.
DeleteNothing(table, dimension) == table

\* TargetAllocation.query.filter_by(dimension=dimension).delete(): the
\* table as the open transaction sees it afterwards.
DeleteDimension(table, dimension) == { t \in table : t.dimension # dimension }

\* a["label"] or a["target_pct"] raises KeyError for some allocation.
RaisesKeyError(allocations) ==
    \E i \in 1..Len(allocations) :
        allocations[i].keys # { "label", "target_pct" }

\* The rows the loop adds to the session.
PendingRows(dimension, allocations) ==
    [ i \in 1..Len(allocations) |->
        Target(dimension, allocations[i].label, allocations[i].target_pct) ]

\* Variant of ViolatesUnique: the table has no unique constraint.
NoConstraint(in_tx, pending) == FALSE

\* uq_dimension_label fails when the pending rows are flushed.
ViolatesUnique(in_tx, pending) ==
    \/ \E i, j \in 1..Len(pending) : i < j /\ pending[i].label = pending[j].label
    \/ \E i \in 1..Len(pending) : \E t \in in_tx :
           t.dimension = pending[i].dimension /\ t.label = pending[i].label

\* Variant of Rollback: the bulk delete stays (an autocommit connection).
RollbackKeepsDelete(committed, in_tx) == in_tx

\* The request ends on an exception before commit returns: the session is
\* removed and its transaction rolled back; the table is as committed.
Rollback(committed, in_tx) == committed

\* The handler: status of the response and the table it leaves.
save_targets(table, dimension, allocations) ==
    IF dimension \notin { "region", "category" }
    THEN [status |-> 400, table |-> table]
    ELSE IF Abs(SumTargetPct(allocations) - 100000) > 1000
    THEN [status |-> 400, table |-> table]
    ELSE
        LET in_tx   == DeleteDimension(table, dimension)
            pending == PendingRows(dimension, allocations)
        IN  IF RaisesKeyError(allocations)
            THEN [status |-> 500, table |-> Rollback(table, in_tx)]
            ELSE IF ViolatesUnique(in_tx, pending)
            THEN [status |-> 500, table |-> Rollback(table, in_tx)]
            ELSE [status |-> 200,
                  table |-> in_tx \cup { pending[i] : i \in 1..Len(pending) }]

InitTargets ==
    /\ EmptyStore
    /\ holdings = << >>
    /\ classifications \in ClassStores
    /\ \E r \in TargetChoices("region"), c \in TargetChoices("category") :
           targets = r \cup c
    /\ pc = "start"
    /\ breakdown = EmptyBreakdown
    /\ rebalance = NoRebalance
    /\ trades = NoTrades
    /\ upload = << >>
    /\ request = NoRequest

SaveTargets(dimension, allocations) ==
    LET out == save_targets(targets, dimension, allocations)
    IN  /\ targets' = out.table
        /\ request' = [dimension |-> dimension, allocations |-> allocations,
                       status |-> out.status]
        /\ UNCHANGED << holdings, classifications, pc, breakdown, rebalance,
                        trades, upload >>
        /\ UNCHANGED store_vars

NextTargets ==
    \E d \in RequestDimensions, a \in AllocationChoices : SaveTargets(d, a)

SpecTargets == InitTargets /\ [][NextTargets]_vars

\* ------------------------------------------------ the stores: input space
\* The most snapshots ever inserted in a behaviour (ids 1..MaxSnapshots).
MaxSnapshots == 2

\* ISO texts of the dates used; a date object is its position in the list.
IsoDates == << "2024-01-01", "2024-01-02" >>

Dates == 1..Len(IsoDates)

\* Values of the snapshot_date form field, of ?date= and of the PATCH body:
\* empty, the ISO dates, and a text that is no ISO date.
DateStrings == { "", "2024-01-01", "2024-01-02", "01/02/2024" }

\* date.fromisoformat(s): the date, or 0 where it raises ValueError.
fromisoformat(s) ==
    IF \E d \in Dates : IsoDates[d] = s
    THEN CHOOSE d \in Dates : IsoDates[d] = s
    ELSE 0

\* snapshot_date.isoformat()
isoformat(d) == IsoDates[d]

\* Values of the brokerage form field, and str.lower() on them.
BrokerageFields == { "fidelity", "Schwab", "vanguard" }

Lower(s) == IF s = "Schwab" THEN "schwab" ELSE s

\* A position row of an uploaded file, with its Description column.
FileRow(s, d, v, q) ==
    [symbol |-> s, description |-> d, value |-> v, quantity |-> q]

\* request.files["file"]: its name, whether a header line naming Symbol and
\* Quantity is in it, and the rows under the header.
File(name, header, rows) ==
    [present |-> TRUE, filename |-> name, header |-> header, rows |-> rows]

\* A request without a "file" part.
NoFile == [present |-> FALSE, filename |-> "", header |-> FALSE, rows |-> << >>]

FileVti ==
    File("vti.csv", TRUE,
         << FileRow("VTI", "VANGUARD TOTAL STOCK", 600, 2),
            FileRow("tlt", "", 0, 0) >>)

FileMixed ==
    File("mixed.csv", TRUE,
         << FileRow("Vxus", "VANGUARD INTL", 6, 2),
            FileRow("TLT", "ISHARES 20+ YEAR", 400, 4) >>)

\* One ticker on two rows under two descriptions.
FileTwice ==
    File("twice.csv", TRUE,
         << FileRow("VTI", "VANGUARD TOTAL STOCK", 600, 2),
            FileRow("vti", "Vanguard Total Stock Market ETF", 1, 1) >>)

\* Position rows without the header line.
FileNoHeader ==
    File("notes.csv", FALSE,
         << FileRow("VTI", "VANGUARD TOTAL STOCK", 600, 2) >>)

\* A header line and only rows every parser skips.
FileNoPositions ==
    File("cash.csv", TRUE,
         << FileRow("Cash", "HELD IN MONEY MARKET", 5, 5),
            FileRow("tlt", "", 0, 0) >>)

FileChoices == { NoFile, FileVti, FileMixed, FileNoHeader, FileNoPositions }

\* What the classification service does for a request: the key is not
\* configured, the API call raises, or it answers.
AiOutcomes == { "nokey", "raises", "answers" }

\* What the analysis service does for a request: the key is not configured,
\* the API call raises, or it answers with one of two texts.
AnalysisOutcomes == { "nokey", "raises", "text A", "text B" }

\* ------------------------------------------------------------ the parsers
\* "total" in ticker.lower(): none of the symbols of the files has it.
LowerHasTotal(s) == s \in { "Account Total", "Totals" }

\* The rows parse_schwab_csv skips.
SchwabSkipsRow(row) ==
    \/ row.symbol = ""
    \/ Upper(row.symbol) \in { "ACCOUNT TOTAL", "CASH & CASH INVESTMENTS", "CASH" }
    \/ LowerHasTotal(row.symbol)
    \/ (row.value = 0 /\ row.quantity = 0)

RECURSIVE parse_schwab_csv(_)
\* The normalized holdings of the rows, in file order.
parse_schwab_csv(rows) ==
    IF rows = << >> THEN << >>
    ELSE
        LET row == Head(rows)
        IN  (IF SchwabSkipsRow(row) THEN << >>
             ELSE << Hold(Upper(row.symbol), row.value, row.quantity, "schwab") >>)
                \o parse_schwab_csv(Tail(rows))

\* Variant of HeaderFound: every file is taken to have its header line.
HeaderAlwaysFound(file) == TRUE

\* header_idx is not None
HeaderFound(file) == file.header

\* The parser of the brokerage applied to the content of the file.
Parsed(file, brokerage) ==
    IF brokerage = "fidelity" THEN parse_fidelity_csv(file.rows)
    ELSE parse_schwab_csv(file.rows)

\* {(h["ticker"], h["name"]) for h in parsed}
TickersWithNames(file, brokerage) ==
    { << Upper(file.rows[i].symbol), file.rows[i].description >> :
        i \in { j \in 1..Len(file.rows) :
                  IF brokerage = "fidelity" THEN ~SkipsRow(file.rows[j])
                  ELSE ~SchwabSkipsRow(file.rows[j]) } }

\* ------------------------------------------------------- classify_tickers
\* A row of ticker_classifications.
ClassRow(t, n, r, c, src) ==
    [ticker |-> t, name |-> n, region_breakdown |-> r,
     category_breakdown |-> c, source |-> src]

\* {c.ticker: c for c in TickerClassification.query.all()}
LookupOf(table) ==
    [ t \in Tickers |->
        IF \E c \in table : c.ticker = t
        THEN LET c == CHOOSE r \in table : r.ticker = t
             IN  Class(c.region_breakdown, c.category_breakdown)
        ELSE NoClass ]

\* _default_classification()
DefaultClassification ==
    [region |-> << W("US", 100) >>, category |-> << W("Equities", 100) >>]

\* _fallback_classify: the KNOWN entry of the ticker, else the default.
FallbackClassify(t) ==
    IF t = "VTI"
    THEN [region |-> << W("US", 100) >>, category |-> << W("Equities", 100) >>]
    ELSE IF t = "VXUS"
    THEN [region |-> << W("DM", 78), W("EM", 22) >>,
          category |-> << W("Equities", 100) >>]
    ELSE IF t = "TLT"
    THEN [region |-> << W("US", 100) >>,
          category |-> << W("Fixed Income", 100) >>]
    ELSE DefaultClassification

\* ai_results.get(ticker, _default_classification()) of an answer that
\* covers VTI and leaves every other ticker out.
AiResult(t) ==
    IF t = "VTI"
    THEN [region |-> << W("US", 60), W("EM", 40) >>,
          category |-> << W("Equities", 100) >>]
    ELSE DefaultClassification

\* The pairs whose ticker has no row yet.
ToClassify(table, tickers_with_names) ==
    { p \in tickers_with_names : p[1] \notin { c.ticker : c \in table } }

\* The rows added to the session, one per pair of to_classify.
PendingClassifications(to_classify, ai) ==
    { LET result == IF ai = "nokey" THEN FallbackClassify(p[1])
                    ELSE AiResult(p[1])
      IN  ClassRow(p[1], p[2], result.region, result.category,
                   IF ai = "nokey" THEN "fallback" ELSE "ai") :
        p \in to_classify }

\* Variant of ViolatesUniqueTicker: the ticker column is not unique.
TickerNotUnique(rows) == FALSE

\* unique=True on ticker fails when the pending rows are flushed.
ViolatesUniqueTicker(rows) ==
    \E r1, r2 \in rows : r1 # r2 /\ r1.ticker = r2.ticker

\* The table after the call, and whether the call raised.
classify_tickers(table, tickers_with_names, ai) ==
    LET to_classify == ToClassify(table, tickers_with_names)
        pending     == PendingClassifications(to_classify, ai)
    IN  IF to_classify = {} THEN [raised |-> FALSE, table |-> table]
        ELSE IF ai = "raises" THEN [raised |-> TRUE, table |-> table]
        ELSE IF ViolatesUniqueTicker(table \cup pending)
        THEN [raised |-> TRUE, table |-> table]
        ELSE [raised |-> FALSE, table |-> table \cup pending]

\* The cache row is deleted and committed, then the ticker is classified.
reclassify_ticker(table, ticker, name, ai) ==
    classify_tickers({ c \in table : c.ticker # ticker },
                     { << ticker, name >> }, ai)

\* Bodies of PUT /api/classifications/<ticker>: the keys present and their
\* values.
ClassData(hr, r, hc, c, hn, n) ==
    [has_region |-> hr, region_breakdown |-> r,
     has_category |-> hc, category_breakdown |-> c,
     has_name |-> hn, name |-> n]

ClassDataChoices ==
    { ClassData(TRUE, << W("US", 50), W("DM", 50) >>, FALSE, << >>, FALSE, ""),
      ClassData(TRUE, << W("Global", 100) >>, TRUE, << W("Cash", 100) >>,
                TRUE, "renamed") }

\* Tickers as written in the URL.
UrlTickers == { "vti" }

\* The table after update_classification.
update_classification(table, ticker, data) ==
    LET t     == Upper(ticker)
        found == { c \in table : c.ticker = t }
        old   == IF found = {} THEN ClassRow(t, "", << >>, << >>, "ai")
                 ELSE CHOOSE c \in found : TRUE
        new   == ClassRow(t,
                          IF data.has_name THEN data.name ELSE old.name,
                          IF data.has_region THEN data.region_breakdown
                          ELSE old.region_breakdown,
                          IF data.has_category THEN data.category_breakdown
                          ELSE old.category_breakdown,
                          "manual")
    IN  (table \ found) \cup { new }

\* ---------------------------------------------------- PortfolioAnalysis
\* generate_analysis: the text for the outcome of the service.
generate_analysis(bd, outcome) ==
    IF outcome = "nokey" THEN "**API key not configured.**"
    ELSE IF outcome = "raises" THEN "**Analysis failed:**"
    ELSE outcome

\* Variant of save_for_date: the rows of the date are not deleted first.
save_appending(rows, snap_date, analysis_text) ==
    Append(rows, [snapshot_date |-> snap_date, analysis |-> analysis_text])

\* The table after save_for_date.
save_for_date(rows, snap_date, analysis_text) ==
    Append(SelectSeq(rows, LAMBDA r : r.snapshot_date # snap_date),
           [snapshot_date |-> snap_date, analysis |-> analysis_text])

\* The analysis text of the row with the greatest id of the date, "" for
\* None.
get_for_date(rows, snap_date) ==
    LET of_date == SelectSeq(rows, LAMBDA r : r.snapshot_date = snap_date)
    IN  IF of_date = << >> THEN "" ELSE of_date[Len(of_date)].analysis

\* --------------------------------------------------------------- snapshots
SnapshotRow(id, d, b, f, n) ==
    [id |-> id, snapshot_date |-> d, brokerage |-> b, filename |-> f,
     holding_count |-> n]

\* Holding(snapshot_id=snapshot.id, ...) for a parsed holding.
HoldingRow(id, h) ==
    [snapshot_id |-> id, ticker |-> h.ticker, value |-> h.value,
     quantity |-> h.quantity, brokerage |-> h.brokerage]

\* Variant of First: the snapshot with the greatest id, whatever its date.
FirstById(S) == CHOOSE s \in S : \A o \in S : o.id <= s.id

\* order_by(snapshot_date.desc(), id.desc()).first() on a non-empty result.
First(S) ==
    CHOOSE s \in S :
        \A o \in S \ { s } :
            \/ o.snapshot_date < s.snapshot_date
            \/ (o.snapshot_date = s.snapshot_date /\ o.id < s.id)

\* snapshot.holdings: the rows whose snapshot_id is the id of the snapshot.
HoldingsOfSnapshot(rows, id) == SelectSeq(rows, LAMBDA h : h.snapshot_id = id)

\* The holdings of the first snapshot of the result, none for no result.
HoldingsOfFirst(S, rows) ==
    IF S = {} THEN << >> ELSE HoldingsOfSnapshot(rows, First(S).id)

get_latest_holdings(snaps, rows) ==
    HoldingsOfFirst({ s \in snaps : s.brokerage = "fidelity" }, rows)
    \o HoldingsOfFirst({ s \in snaps : s.brokerage = "schwab" }, rows)

get_snapshot_holdings(snaps, rows, snapshot_date_str) ==
    LET snap_date == fromisoformat(snapshot_date_str)
    IN  IF snap_date = 0 THEN << >>
        ELSE HoldingsOfFirst({ s \in snaps : s.brokerage = "fidelity"
                                              /\ s.snapshot_date = snap_date }, rows)
             \o HoldingsOfFirst({ s \in snaps : s.brokerage = "schwab"
                                                 /\ s.snapshot_date = snap_date }, rows)

\* The date analyses are stored under, 0 for None.
get_effective_date(snaps, snap_date_str) ==
    IF snap_date_str # "" THEN fromisoformat(snap_date_str)
    ELSE IF snaps = {} THEN 0
    ELSE First(snaps).snapshot_date

\* The holdings a request reads: those of ?date=, or the latest.
RequestHoldings(snaps, rows, snap_date) ==
    IF snap_date # "" THEN get_snapshot_holdings(snaps, rows, snap_date)
    ELSE get_latest_holdings(snaps, rows)

\* ------------------------------------------------- requests to the stores
Response(op, status, arg, analysis) ==
    [op |-> op, status |-> status, arg |-> arg, analysis |-> analysis]

InitStore ==
    /\ snapshots = {}
    /\ holding_rows = << >>
    /\ snapshot_seq = 0
    /\ ticker_classifications = {}
    /\ analyses = << >>
    /\ response = NoResponse
    /\ holdings = << >>
    /\ classifications = LookupOf({})
    /\ targets = {}
    /\ pc = "start"
    /\ breakdown = EmptyBreakdown
    /\ rebalance = NoRebalance
    /\ trades = NoTrades
    /\ upload = << >>
    /\ request = NoRequest

\* A request that computes no breakdown.
NoComputation ==
    /\ holdings' = << >>
    /\ breakdown' = EmptyBreakdown
    /\ pc' = "start"

\* The uploads the handler answers with 400 before it writes.
Rejects(file, brokerage_field, snapshot_date_str) ==
    \/ ~file.present
    \/ Lower(brokerage_field) \notin { "fidelity", "schwab" }
    \/ (snapshot_date_str # "" /\ fromisoformat(snapshot_date_str) = 0)
    \/ ~HeaderFound(file)
    \/ Parsed(file, Lower(brokerage_field)) = << >>

\* POST /api/upload.  today is date.today(); ai and outcome are what the
\* classification and analysis services do during the request.
UploadCsv(file, brokerage_field, snapshot_date_str, today, ai, outcome) ==
    LET brokerage     == Lower(brokerage_field)
        snapshot_date == IF snapshot_date_str # ""
                         THEN fromisoformat(snapshot_date_str) ELSE today
    IN  /\ upload' = file.rows
        /\ UNCHANGED << targets, rebalance, trades, request >>
        /\ IF Rejects(file, brokerage_field, snapshot_date_str)
           THEN /\ response' = Response("upload", 400, "", "")
                /\ NoComputation
                /\ UNCHANGED << snapshots, holding_rows, snapshot_seq,
                                ticker_classifications, classifications,
                                analyses >>
           ELSE
               LET parsed == Parsed(file, brokerage)
                   id     == snapshot_seq + 1
                   snaps  == snapshots \cup
                                 { SnapshotRow(id, snapshot_date, brokerage,
                                               file.filename, Len(parsed)) }
                   rows   == holding_rows \o
                                 [ i \in 1..Len(parsed) |-> HoldingRow(id, parsed[i]) ]
                   out    == classify_tickers(ticker_classifications,
                                              TickersWithNames(file, brokerage), ai)
                   dated  == get_snapshot_holdings(snaps, rows,
                                                   isoformat(snapshot_date))
                   all_holdings == IF dated # << >> THEN dated
                                   ELSE get_latest_holdings(snaps, rows)
                   bd     == compute_breakdown(all_holdings, LookupOf(out.table))
                   text   == generate_analysis(bd, outcome)
               IN  /\ snapshot_seq < MaxSnapshots
                   /\ snapshots' = snaps
                   /\ holding_rows' = rows
                   /\ snapshot_seq' = id
                   /\ ticker_classifications' = out.table
                   /\ classifications' = LookupOf(out.table)
                   /\ IF out.raised
                      THEN /\ response' = Response("upload", 500, "", "")
                           /\ NoComputation
                           /\ UNCHANGED analyses
                      ELSE /\ holdings' = all_holdings
                           /\ breakdown' = bd
                           /\ pc' = "breakdown"
                           /\ analyses' = save_for_date(analyses, snapshot_date, text)
                           /\ response' = Response("upload", 200, "", text)

\* DELETE /api/snapshots/<id>: the snapshot and, by the cascade of its
\* relationship, its holdings.
DeleteSnapshot(snapshot_id) ==
    /\ IF \E s \in snapshots : s.id = snapshot_id
       THEN /\ snapshots' = { s \in snapshots : s.id # snapshot_id }
            /\ holding_rows' =
                   SelectSeq(holding_rows, LAMBDA h : h.snapshot_id # snapshot_id)
            /\ response' = Response("delete", 200, "", "")
       ELSE /\ response' = Response("delete", 404, "", "")
            /\ UNCHANGED << snapshots, holding_rows >>
    /\ NoComputation
    /\ upload' = << >>
    /\ UNCHANGED << snapshot_seq, ticker_classifications, classifications,
                    analyses, targets, rebalance, trades, request >>

\* Bodies of PATCH /api/snapshots/<id>: without or with a snapshot_date.
PatchChoices ==
    { [has_date |-> FALSE, snapshot_date |-> ""] }
    \cup { [has_date |-> TRUE, snapshot_date |-> s] : s \in DateStrings }

\* PATCH /api/snapshots/<id>
UpdateSnapshot(snapshot_id, data) ==
    /\ IF ~(\E s \in snapshots : s.id = snapshot_id)
       THEN /\ response' = Response("patch", 404, "", "")
            /\ UNCHANGED snapshots
       ELSE IF data.has_date /\ fromisoformat(data.snapshot_date) = 0
       THEN /\ response' = Response("patch", 500, "", "")
            /\ UNCHANGED snapshots
       ELSE /\ snapshots' =
                   { IF s.id = snapshot_id /\ data.has_date
                     THEN [s EXCEPT !.snapshot_date = fromisoformat(data.snapshot_date)]
                     ELSE s : s \in snapshots }
            /\ response' = Response("patch", 200, "", "")
    /\ NoComputation
    /\ upload' = << >>
    /\ UNCHANGED << holding_rows, snapshot_seq, ticker_classifications,
                    classifications, analyses, targets, rebalance, trades,
                    request >>

\* GET /api/breakdown, with or without ?date=
GetBreakdown(snap_date) ==
    LET hs             == RequestHoldings(snapshots, holding_rows, snap_date)
        effective_date == get_effective_date(snapshots, snap_date)
        saved          == IF effective_date = 0 THEN ""
                          ELSE get_for_date(analyses, effective_date)
    IN  /\ holdings' = hs
        /\ classifications' = LookupOf(ticker_classifications)
        /\ breakdown' = compute_breakdown(hs, LookupOf(ticker_classifications))
        /\ pc' = "breakdown"
        /\ response' = Response("breakdown", 200, snap_date, saved)
        /\ upload' = << >>
        /\ UNCHANGED << snapshots, holding_rows, snapshot_seq,
                        ticker_classifications, analyses, targets, rebalance,
                        trades, request >>

\* POST /api/analyze, with or without ?date=
AnalyzePortfolio(snap_date, outcome) ==
    LET hs             == RequestHoldings(snapshots, holding_rows, snap_date)
        bd             == compute_breakdown(hs, LookupOf(ticker_classifications))
        analysis_text  == generate_analysis(bd, outcome)
        effective_date == get_effective_date(snapshots, snap_date)
    IN  /\ IF hs = << >>
           THEN /\ response' = Response("analyze", 404, snap_date, "")
                /\ NoComputation
                /\ UNCHANGED analyses
           ELSE /\ holdings' = hs
                /\ breakdown' = bd
                /\ pc' = "breakdown"
                /\ analyses' = IF effective_date # 0
                               THEN save_for_date(analyses, effective_date,
                                                  analysis_text)
                               ELSE analyses
                /\ response' = Response("analyze", 200, snap_date, analysis_text)
        /\ classifications' = LookupOf(ticker_classifications)
        /\ upload' = << >>
        /\ UNCHANGED << snapshots, holding_rows, snapshot_seq,
                        ticker_classifications, targets, rebalance, trades,
                        request >>

\* PUT /api/classifications/<ticker>
UpdateClassification(ticker, data) ==
    /\ ticker_classifications' =
           update_classification(ticker_classifications, ticker, data)
    /\ classifications' = LookupOf(ticker_classifications')
    /\ response' = Response("classification", 200, Upper(ticker), "")
    /\ NoComputation
    /\ upload' = << >>
    /\ UNCHANGED << snapshots, holding_rows, snapshot_seq, analyses, targets,
                    rebalance, trades, request >>

\* POST /api/classifications/<ticker>/reclassify
Reclassify(ticker, ai) ==
    LET t    == Upper(ticker)
        name == IF \E c \in ticker_classifications : c.ticker = t
                THEN (CHOOSE c \in ticker_classifications : c.ticker = t).name
                ELSE ""
        out  == reclassify_ticker(ticker_classifications, t, name, ai)
    IN  /\ ticker_classifications' = out.table
        /\ classifications' = LookupOf(out.table)
        /\ response' = Response("reclassify", IF out.raised THEN 500 ELSE 200, t, "")
        /\ NoComputation
        /\ upload' = << >>
        /\ UNCHANGED << snapshots, holding_rows, snapshot_seq, analyses,
                        targets, rebalance, trades, request >>

\* Uploads, deletions, date changes and reads, no service key configured.
NextSnapshots ==
    \/ \E file \in FileChoices, b \in BrokerageFields, d \in DateStrings :
           \E today \in (IF d = "" THEN Dates ELSE { 1 }) :
               UploadCsv(file, b, d, today, "nokey", "nokey")
    \/ \E id \in 1..MaxSnapshots : DeleteSnapshot(id)
    \/ \E id \in 1..MaxSnapshots, data \in PatchChoices : UpdateSnapshot(id, data)
    \/ \E d \in DateStrings : GetBreakdown(d)

SpecSnapshots == InitStore /\ [][NextSnapshots]_vars

\* Uploads to one brokerage on one day, manual updates and reclassifications,
\* under every outcome of the classification service.
NextClassifications ==
    \/ \E file \in { FileMixed, FileTwice }, ai \in AiOutcomes :
           UploadCsv(file, "fidelity", "", 1, ai, "nokey")
    \/ \E ticker \in UrlTickers, data \in ClassDataChoices :
           UpdateClassification(ticker, data)
    \/ \E ticker \in UrlTickers, ai \in AiOutcomes : Reclassify(ticker, ai)

SpecClassifications == InitStore /\ [][NextClassifications]_vars

\* Uploads and analysis requests under every outcome of the analysis
\* service, and reads of the saved analysis.
NextAnalyses ==
    \/ \E d \in DateStrings, outcome \in AnalysisOutcomes :
           UploadCsv(FileVti, "fidelity", d, 1, "nokey", outcome)
    \/ \E d \in DateStrings, outcome \in AnalysisOutcomes :
           AnalyzePortfolio(d, outcome)
    \/ \E d \in DateStrings : GetBreakdown(d)

SpecAnalyses == InitStore /\ [][NextAnalyses]_vars

\* ---------------------------------------------------------- type invariant
TypeOK ==
    /\ Len(holdings) <= MaxHoldings + 1
    /\ pc \in { "upload", "start", "breakdown", "rebalance", "trades" }
    /\ breakdown.total_value \in Int

\* ================================================================ claims
\* Vocabulary of the properties below, computed from the inputs of the
\* request and not through the operators above.
RECURSIVE SumFn(_, _)
SumFn(f, S) ==
    IF S = {} THEN 0
    ELSE LET x == CHOOSE y \in S : TRUE IN f[x] + SumFn(f, S \ { x })

SeqSum(seq, field) ==
    SumFn([ i \in 1..Len(seq) |-> seq[i][field] ], 1..Len(seq))

HeldTickers == { holdings[i].ticker : i \in 1..Len(holdings) }

HoldingsOf(t) == { i \in 1..Len(holdings) : holdings[i].ticker = t }

GroupValue(t) == SumFn([ i \in 1..Len(holdings) |-> holdings[i].value ], HoldingsOf(t))

GroupQuantity(t) ==
    SumFn([ i \in 1..Len(holdings) |-> holdings[i].quantity ], HoldingsOf(t))

GroupBrokerages(t) == { holdings[i].brokerage : i \in HoldingsOf(t) }

TotalOfHoldings == SumFn([ i \in 1..Len(holdings) |-> holdings[i].value ],
                         1..Len(holdings))

WeightIn(bd, l) ==
    SumFn([ i \in 1..Len(bd) |-> IF bd[i].label = l THEN bd[i].weight ELSE 0 ],
          1..Len(bd))

LabelsOf(seq) == { seq[i].label : i \in 1..Len(seq) }

Computed == pc \notin { "upload", "start" }

ByDimension(d) == IF d = "region" THEN breakdown.by_region
                  ELSE breakdown.by_category

\* The distribution the detail record of ticker t carries for dimension d.
DetailDistribution(t, d) ==
    LET rec == breakdown.holdings[
                   CHOOSE i \in 1..Len(breakdown.holdings) :
                       breakdown.holdings[i].ticker = t]
    IN  IF d = "region" THEN rec.region ELSE rec.category

\* Sum over the ticker groups of v * w / 100 for label l, in fine units.
AttributedFine(d, l) ==
    SumFn([ t \in HeldTickers |->
              GroupValue(t) * WeightIn(DetailDistribution(t, d), l) ],
          HeldTickers)

\* Every held ticker's region and category weights sum to 100.
DistributionsSumTo100 ==
    \A t \in HeldTickers :
        /\ SeqSum(RegionOf(classifications, t), "weight") = 100
        /\ SeqSum(CategoryOf(classifications, t), "weight") = 100

\* C1: an empty holdings list, or holding values that sum to exactly 0,
\* give total_value 0, no region, no category and no detail record.
C1_ZeroTotalSafety ==
    (Computed /\ (holdings = << >> \/ TotalOfHoldings = 0))
        => /\ breakdown.total_value = 0
           /\ breakdown.by_region = << >>
           /\ breakdown.by_category = << >>
           /\ breakdown.holdings = << >>

\* C1 case: holdings with non-zero values that cancel out.
C1_Witness ==
    /\ Computed
    /\ holdings # << >>
    /\ TotalOfHoldings = 0
    /\ \E i \in 1..Len(holdings) : holdings[i].value # 0
    /\ breakdown.holdings = << >>

\* C2 as stated: with a non-zero total and distributions summing to 100,
\* the reported values of each dimension sum to the reported total_value.
C2_ValueConservationExact ==
    (Computed /\ breakdown.total_value # 0 /\ DistributionsSumTo100)
        => \A d \in Dimensions :
               SeqSum(ByDimension(d), "value") = breakdown.total_value

\* C2 amended: the reported values sum to the reported total_value to
\* within half a cent per reported figure, the labels' values and
\* total_value (each is rounded to the cent on its own).
C2_ValueConservationRounded ==
    (Computed /\ breakdown.total_value # 0 /\ DistributionsSumTo100)
        => \A d \in Dimensions :
               2 * Abs(SeqSum(ByDimension(d), "value") - breakdown.total_value)
                   <= Len(ByDimension(d)) + 1

\* C2 case: a split distribution over a multi-ticker portfolio whose
\* per-label values are not whole cents.
C2_Witness ==
    /\ Computed
    /\ breakdown.total_value # 0
    /\ DistributionsSumTo100
    /\ Len(breakdown.by_region) >= 3
    /\ \E i \in 1..Len(breakdown.by_region) :
           AttributedFine("region", breakdown.by_region[i].label) % 100 # 0

\* C3 as stated: the pct fields of each dimension sum to 100.
C3_PctSumExact ==
    (Computed /\ breakdown.total_value # 0 /\ DistributionsSumTo100)
        => \A d \in Dimensions : SeqSum(ByDimension(d), "pct") = 10000

\* C3 amended: the pct fields of each dimension sum to 100 to within
\* 0.005 per reported label (each pct is rounded to 2 decimals on its own).
C3_PctSumRounded ==
    (Computed /\ breakdown.total_value # 0 /\ DistributionsSumTo100)
        => \A d \in Dimensions :
               2 * Abs(SeqSum(ByDimension(d), "pct") - 10000)
                   <= Len(ByDimension(d))

\* C3 case: three labels of a dimension none of whose share is a whole
\* number of basis points.
C3_Witness ==
    /\ Computed
    /\ breakdown.total_value # 0
    /\ DistributionsSumTo100
    /\ Len(breakdown.by_region) >= 3
    /\ \A i \in 1..Len(breakdown.by_region) :
           (AttributedFine("region", breakdown.by_region[i].label) * 100)
               % breakdown.total_value # 0

\* C4 as stated: a held ticker without a classification row gets region
\* {US: 100} and category {Other: 100} in its detail record, and a
\* portfolio of such tickers alone is wholly in US and in Other.
C4_DefaultIsOther ==
    (Computed /\ breakdown.total_value # 0)
        => /\ \A t \in HeldTickers :
                 ~classifications[t].present =>
                     /\ DetailDistribution(t, "region") = << W("US", 100) >>
                     /\ DetailDistribution(t, "category") = << W("Other", 100) >>
           /\ (\A t \in HeldTickers : ~classifications[t].present) =>
                 /\ LabelsOf(breakdown.by_region) = { "US" }
                 /\ LabelsOf(breakdown.by_category) = { "Other" }

\* C5 as stated: each reported label value is exactly the sum of
\* v * w / 100 over the ticker groups carrying the label.
C5_CrossAttributionExact ==
    (Computed /\ breakdown.total_value # 0)
        => \A d \in Dimensions :
               \A i \in 1..Len(ByDimension(d)) :
                   ByDimension(d)[i].value * 100
                       = AttributedFine(d, ByDimension(d)[i].label)

\* C5 amended: the labels reported for a dimension are those carried by
\* some ticker group, each once, and each reported value is the sum of
\* v * w / 100 over the groups carrying it, rounded to 2 decimals.
C5_CrossAttributionRounded ==
    (Computed /\ breakdown.total_value # 0)
        => \A d \in Dimensions :
               /\ LabelsOf(ByDimension(d))
                      = UNION { LabelsOf(DetailDistribution(t, d)) : t \in HeldTickers }
               /\ Len(ByDimension(d)) = Cardinality(LabelsOf(ByDimension(d)))
               /\ \A i \in 1..Len(ByDimension(d)) :
                      ByDimension(d)[i].value
                          = RoundMoney(AttributedFine(d, ByDimension(d)[i].label))

\* C5 case: a label fed by two ticker groups, each through a partial weight.
C5_Witness ==
    /\ Computed
    /\ breakdown.total_value # 0
    /\ \E l \in Labels : \E t1, t2 \in HeldTickers :
           /\ t1 # t2
           /\ GroupValue(t1) > 0 /\ GroupValue(t2) > 0
           /\ WeightIn(DetailDistribution(t1, "region"), l) \in 1..99
           /\ WeightIn(DetailDistribution(t2, "region"), l) \in 1..99
           /\ \E i \in 1..Len(breakdown.by_region) :
                  /\ breakdown.by_region[i].label = l
                  /\ breakdown.by_region[i].value > 0

\* One detail record per held ticker, carrying the sums over its holdings
\* and each contributing brokerage once.
OneRecordPerTicker ==
    /\ Len(breakdown.holdings) = Cardinality(HeldTickers)
    /\ { breakdown.holdings[i].ticker : i \in 1..Len(breakdown.holdings) }
           = HeldTickers
    /\ \A i \in 1..Len(breakdown.holdings) :
           LET rec == breakdown.holdings[i]
           IN  /\ rec.value = GroupValue(rec.ticker)
               /\ rec.quantity = GroupQuantity(rec.ticker)
               /\ { rec.brokerages[k] : k \in 1..Len(rec.brokerages) }
                      = GroupBrokerages(rec.ticker)
               /\ Len(rec.brokerages) = Cardinality(GroupBrokerages(rec.ticker))

\* C6 as stated: for any holdings list the detail list has exactly one
\* record per distinct ticker, with summed value and quantity and each
\* contributing brokerage listed once.
C6_AggregationAlways == Computed => OneRecordPerTicker

\* C6 amended: the same, for holdings whose values do not sum to 0 (with a
\* zero total the detail list is empty whatever the tickers).
C6_AggregationNonZero ==
    (Computed /\ TotalOfHoldings # 0) => OneRecordPerTicker

\* C6 case: a ticker held at both brokerages next to another ticker.
C6_Witness ==
    /\ Computed
    /\ TotalOfHoldings # 0
    /\ Cardinality(HeldTickers) >= 2
    /\ \E t \in HeldTickers :
           /\ Cardinality(HoldingsOf(t)) >= 2
           /\ GroupBrokerages(t) = Brokerages
           /\ \E i \in 1..Len(breakdown.holdings) :
                  /\ breakdown.holdings[i].ticker = t
                  /\ Len(breakdown.holdings[i].brokerages) = 2

\* ---- rebalance vocabulary
Rebalanced == pc = "rebalance"

\* The stored target rows of the dimension the rebalance was asked for.
RowsOfRequest == { t \in targets : t.dimension = rebalance.dimension }

CurrentOfRequest == ByDimension(rebalance.dimension)

StoredTargetPct(l) ==
    IF \E t \in RowsOfRequest : t.label = l
    THEN (CHOOSE t \in RowsOfRequest : t.label = l).target_pct
    ELSE 0

ReportedCurrent(l, field) ==
    IF l \in LabelsOf(CurrentOfRequest)
    THEN (CHOOSE e \in { CurrentOfRequest[i] : i \in 1..Len(CurrentOfRequest) } :
              e.label = l)[field]
    ELSE 0

Items == { rebalance.items[i] : i \in 1..Len(rebalance.items) }

\* C7: compute_rebalance returns the empty list when the breakdown's total
\* is 0 or the requested dimension has no target, whatever else is stored.
C7_EmptyRebalance ==
    (Rebalanced /\ (breakdown.total_value = 0 \/ RowsOfRequest = {}))
        => rebalance.items = << >>

\* C7 case: a non-empty breakdown, targets for the other dimension only.
C7_Witness ==
    /\ Rebalanced
    /\ breakdown.total_value # 0
    /\ CurrentOfRequest # << >>
    /\ RowsOfRequest = {}
    /\ targets # {}
    /\ rebalance.items = << >>

\* C8: with a non-zero total and a target for the dimension, the result
\* has exactly one item per label of (breakdown labels) union (target
\* labels); a target-only label has current_value 0 and current_pct 0, a
\* label without target has target_pct 0 and target_value 0.
C8_LabelUnion ==
    (Rebalanced /\ breakdown.total_value # 0 /\ RowsOfRequest # {})
        => /\ { it.label : it \in Items }
                  = LabelsOf(CurrentOfRequest) \cup { t.label : t \in RowsOfRequest }
           /\ Len(rebalance.items) = Cardinality({ it.label : it \in Items })
           /\ \A it \in Items :
                  /\ it.label \notin LabelsOf(CurrentOfRequest)
                         => (it.current_value = 0 /\ it.current_pct = 0)
                  /\ it.label \notin { t.label : t \in RowsOfRequest }
                         => (it.target_pct = 0 /\ it.target_value = 0)

\* C8 case: a result holding a target-only label and a label without target.
C8_Witness ==
    /\ Rebalanced
    /\ \E a, b \in Items :
           /\ a.label \notin LabelsOf(CurrentOfRequest)
           /\ a.target_pct > 0
           /\ b.label \notin { t.label : t \in RowsOfRequest }
           /\ b.current_value > 0

\* C9: every item has target_value = total_value * target_pct / 100,
\* drift = current_pct - target_pct and amount = |current_value -
\* target_value|, on the breakdown's figures for the label and the stored
\* target, each output rounded to 2 decimals.
C9_ItemArithmetic ==
    Rebalanced =>
        \A it \in Items :
            LET cp == ReportedCurrent(it.label, "pct")
                cv == ReportedCurrent(it.label, "value")
                tp == StoredTargetPct(it.label)
                T  == breakdown.total_value
            IN  /\ it.current_pct = cp
                /\ it.current_value = cv
                /\ it.target_pct = RoundHalfEven(tp, 10)
                /\ it.target_value = RoundHalfEven(T * tp, 100000)
                /\ it.drift = RoundHalfEven(cp * 10 - tp, 10)
                /\ it.amount = RoundHalfEven(Abs(cv * 100000 - T * tp), 100000)

\* C9 case: an overweight and an underweight item with money to move.
C9_Witness ==
    /\ Rebalanced
    /\ \E a, b \in Items :
           /\ a.drift > 0 /\ a.amount > 0 /\ a.current_value > a.target_value
           /\ b.drift < 0 /\ b.amount > 0 /\ b.target_value > b.current_value
           /\ b.current_value > 0

\* C10: an item's action is sell exactly when its drift is above 0.5, buy
\* exactly when it is below -0.5, and hold otherwise.
C10_ActionThresholds ==
    Rebalanced =>
        \A it \in Items :
            /\ it.action \in { "sell", "buy", "hold" }
            /\ (it.action = "sell") <=> (it.drift > 50)
            /\ (it.action = "buy") <=> (it.drift < -50)

\* C10 case: one result with drift exactly 0.5 and -0.5 held, 0.51 sold
\* and -0.51 bought.
C10_Witness ==
    /\ Rebalanced
    /\ \E a, b, c, e \in Items :
           /\ a.drift = 50 /\ a.action = "hold"
           /\ b.drift = -50 /\ b.action = "hold"
           /\ c.drift = 51 /\ c.action = "sell"
           /\ e.drift = -51 /\ e.action = "buy"

\* The lists compute_rebalance has returned in this state: the one of a
\* rebalance request, or the two inside the trade suggestions.
RebalanceLists ==
    IF pc = "rebalance" THEN { rebalance.items }
    ELSE IF pc = "trades" THEN { trades.region, trades.category }
    ELSE {}

\* C11: the list compute_rebalance returns is ordered by non-increasing
\* absolute drift: no item has a larger |drift| than an item before it.
C11_SortedByAbsDrift ==
    \A items \in RebalanceLists :
        \A i, j \in 1..Len(items) :
            (i < j) => Abs(items[i].drift) >= Abs(items[j].drift)

\* C11 case: a list of at least three items with both signs of drift,
\* where the largest |drift| is a negative one and the label order
\* differs from the returned order.
C11_Witness ==
    \E items \in RebalanceLists :
        /\ Len(items) >= 3
        /\ items[1].drift < 0
        /\ \E i \in 2..Len(items) : items[i].drift > 0
        /\ \E i, j \in 1..Len(items) :
               /\ i < j
               /\ Abs(items[i].drift) > Abs(items[j].drift)
               /\ \E a, b \in 1..Len(LabelOrder) :
                      /\ LabelOrder[a] = items[i].label
                      /\ LabelOrder[b] = items[j].label
                      /\ a > b

\* Vocabulary of the trade suggestions.
Suggested == pc = "trades"

\* The items of a rebalance list that call for a trade, in list order.
TradeItems(items) == SelectSeq(items, LAMBDA it : it.action \in { "sell", "buy" })

\* The summary string of one trade item of the category list.
CategoryText(it) ==
    (IF it.action = "sell" THEN "Sell $" ELSE "Buy $")
        \o FormatDollars(it.amount) \o " of " \o it.label

\* The summary string of one trade item of the region list.
RegionText(it) ==
    (IF it.action = "sell" THEN "Reduce " ELSE "Increase ")
        \o it.label \o " by $" \o FormatDollars(it.amount)

\* Category strings, then region strings, each in its list's order.
ExpectedTexts ==
    LET c == TradeItems(trades.category)
        r == TradeItems(trades.region)
    IN  [ i \in 1..Len(c) |-> CategoryText(c[i]) ]
            \o [ i \in 1..Len(r) |-> RegionText(r[i]) ]

\* C12: suggest_trades returns the region list and the category list of
\* compute_rebalance, and a summary holding one string per sell or buy
\* item: all category strings ("Sell $X of L" / "Buy $X of L") before all
\* region strings ("Reduce L by $X" / "Increase L by $X"), each group in
\* the order of its list, joined by "; ".
C12_TradesAndSummary ==
    Suggested =>
        /\ trades.region = compute_rebalance(breakdown, "region", targets)
        /\ trades.category = compute_rebalance(breakdown, "category", targets)
        /\ (ExpectedTexts # << >>) => trades.summary = Join(ExpectedTexts, "; ")

\* C12 case: both dimensions contribute, the category list at least two
\* strings with a sell and a buy, and a hold item stands between trades.
C12_Witness ==
    /\ Suggested
    /\ Len(TradeItems(trades.category)) >= 2
    /\ Len(TradeItems(trades.region)) >= 2
    /\ \E i, j \in 1..Len(trades.category) :
           /\ trades.category[i].action = "sell"
           /\ trades.category[j].action = "buy"
    /\ \E i \in 1..Len(trades.region) : trades.region[i].action = "hold"
    /\ trades.summary = Join(ExpectedTexts, "; ")

\* C13: the summary is exactly "Portfolio is balanced!" if and only if no
\* item of either list has action sell or buy, both lists empty included;
\* hold items contribute no string.
C13_BalancedSummary ==
    Suggested =>
        ( trades.summary = "Portfolio is balanced!"
            <=> /\ \A i \in 1..Len(trades.region) :
                       trades.region[i].action = "hold"
                /\ \A i \in 1..Len(trades.category) :
                       trades.category[i].action = "hold" )

\* C13 case: a non-empty list of hold items only, and the balanced summary.
C13_Witness ==
    /\ Suggested
    /\ Len(trades.category) >= 2
    /\ \A i \in 1..Len(trades.category) : trades.category[i].action = "hold"
    /\ trades.region = << >>
    /\ trades.summary = "Portfolio is balanced!"

\* C13 case: both lists empty.
C13_WitnessEmpty ==
    /\ Suggested
    /\ holdings # << >>
    /\ trades.category = << >>
    /\ trades.region = << >>
    /\ trades.summary = "Portfolio is balanced!"

\* Vocabulary of the stored targets.
StoredRows(tgts, d) == { t \in tgts : t.dimension = d }

\* The submitted allocations as rows of the request's dimension.
SubmittedRows(req) ==
    { [dimension |-> req.dimension, label |-> req.allocations[i].label,
       target_pct |-> req.allocations[i].target_pct] :
          i \in 1..Len(req.allocations) }

\* C14: after a successful save_targets for dimension d the stored targets
\* of d are exactly the submitted allocations, and the targets of the
\* other dimension are the same as before the request.
C14_SaveReplacesDimension ==
    [][ (request'.status = 200) =>
            /\ StoredRows(targets', request'.dimension) = SubmittedRows(request')
            /\ Cardinality(SubmittedRows(request')) = Len(request'.allocations)
            /\ \A d \in Dimensions \ { request'.dimension } :
                   StoredRows(targets', d) = StoredRows(targets, d) ]_vars

\* C14 case: a save has replaced the three region targets by one row while
\* category targets are stored.
C14_Witness ==
    /\ request.status = 200
    /\ request.dimension = "region"
    /\ StoredRows(targets, "region") = { Target("region", "US", 100000) }
    /\ StoredRows(targets, "category") # {}

\* C15: a save_targets request that is rejected or fails (dimension not
\* region or category, sum not within 1 of 100, an insert failing after
\* the delete) leaves the stored targets of every dimension unchanged.
C15_SaveAllOrNothing ==
    [][ (request'.status # 200) => targets' = targets ]_vars

\* C15 case: a request that passed validation and failed after the delete
\* (repeated label, or an allocation lacking a key), with targets of its
\* dimension still stored.
C15_Witness ==
    /\ request.status = 500
    /\ StoredRows(targets, request.dimension) # {}
    /\ \/ \E i, j \in 1..Len(request.allocations) :
              i < j /\ request.allocations[i].label = request.allocations[j].label
       \/ \E i \in 1..Len(request.allocations) :
              "label" \notin request.allocations[i].keys

\* C15 case: a request rejected by validation with targets stored.
C15_WitnessRejected ==
    /\ request.status = 400
    /\ request.dimension \in Dimensions
    /\ StoredRows(targets, request.dimension) # {}

ExampleInputs ==
    /\ holdings = << Hold("VTI", 600, 2, "fidelity"), Hold("TLT", 400, 4, "schwab") >>
    /\ classifications["VTI"].present
    /\ classifications["VTI"].category_breakdown = << W("Equities", 100) >>
    /\ classifications["TLT"].present
    /\ classifications["TLT"].category_breakdown
           = << W("Long-Term Treasuries", 100) >>
    /\ StoredRows(targets, "category")
           = { Target("category", "Equities", 50000),
               Target("category", "Long-Term Treasuries", 50000) }

\* The breakdown and the drifts and actions of the example.
ExampleOutputs(amount) ==
    /\ breakdown.total_value = 1000
    /\ breakdown.by_category
           = << [label |-> "Equities", value |-> 600, pct |-> 6000],
                [label |-> "Long-Term Treasuries", value |-> 400, pct |-> 4000] >>
    /\ Len(trades.category) = 2
    /\ \E i \in 1..2 :
           /\ trades.category[i].label = "Equities"
           /\ trades.category[i].drift = 1000
           /\ trades.category[i].action = "sell"
           /\ trades.category[i].amount = amount
    /\ \E i \in 1..2 :
           /\ trades.category[i].label = "Long-Term Treasuries"
           /\ trades.category[i].drift = -1000
           /\ trades.category[i].action = "buy"
           /\ trades.category[i].amount = amount

\* C17 as stated: in the example by_category is Equities {600, 60} and
\* Long-Term Treasuries {400, 40}, and the category rebalance is Equities
\* drift 10 sell amount 20, Long-Term Treasuries drift -10 buy amount 20
\* (20 at the example's scale, 0.20 here).
C17_ExampleAsStated ==
    (Suggested /\ ExampleInputs) => ExampleOutputs(20)

\* C17 amended: the same breakdown, drifts and actions, and amount 100 for
\* both items (|600 - 500| and |400 - 500|; 1.00 here).
C17_ExampleComputed ==
    (Suggested /\ ExampleInputs) => ExampleOutputs(100)

\* C17 case: the example has run and both category items call for a trade.
C17_Witness ==
    /\ Suggested
    /\ ExampleInputs
    /\ \A i \in 1..Len(trades.category) : trades.category[i].action # "hold"

\* A sequence of records is in non-increasing order of a field.
NonIncreasing(seq, field) ==
    \A i, j \in 1..Len(seq) : (i < j) => seq[i][field] >= seq[j][field]

\* C18: in every breakdown by_region and by_category are in non-increasing
\* order of their reported value, and the holdings detail list is in
\* non-increasing order of value.
C18_SortedByValue ==
    Computed =>
        /\ NonIncreasing(breakdown.by_region, "value")
        /\ NonIncreasing(breakdown.by_category, "value")
        /\ NonIncreasing(breakdown.holdings, "value")

\* C18 case: three regions and two categories of distinct values, and a
\* detail list whose largest ticker is not the first one held.
C18_Witness ==
    /\ Computed
    /\ Len(breakdown.by_region) >= 3
    /\ breakdown.by_region[1].value > breakdown.by_region[2].value
    /\ breakdown.by_region[2].value > breakdown.by_region[3].value
    /\ Len(breakdown.by_category) >= 2
    /\ breakdown.by_category[1].value > breakdown.by_category[2].value
    /\ Len(breakdown.holdings) >= 2
    /\ breakdown.holdings[1].ticker # holdings[1].ticker
    /\ breakdown.holdings[1].value > breakdown.holdings[2].value
    /\ breakdown.by_category[1].label
           # CategoryOf(classifications, holdings[1].ticker)[1].label

\* Vocabulary of the uploaded rows.  Spellings of one ticker that differ
\* only in letter case, with the ticker the classification store knows.
CaseClasses ==
    { [ticker |-> "VTI",  spellings |-> { "VTI", "vti" }],
      [ticker |-> "VXUS", spellings |-> { "VXUS", "Vxus" }],
      [ticker |-> "TLT",  spellings |-> { "TLT", "tlt" }] }

\* The rows of the file that are positions with a value or a quantity.
PositionRows ==
    { i \in 1..Len(upload) :
        /\ upload[i].symbol # "Cash"
        /\ ~(upload[i].value = 0 /\ upload[i].quantity = 0) }

RowsOfClass(c) == { i \in PositionRows : upload[i].symbol \in c.spellings }

DetailsOfClass(c) ==
    { k \in 1..Len(breakdown.holdings) : breakdown.holdings[k].ticker \in c.spellings }

TargetOnlyRows ==
    { t \in RowsOfRequest :
        t.target_pct > 0 /\ t.label \notin LabelsOf(CurrentOfRequest) }

\* C20 as stated: every label with a target_pct > 0 and no current holdings
\* in the breakdown appears in the result with current_value 0, action buy
\* and amount equal to its target_value.
C20_TargetOnlyIsBuy ==
    Rebalanced =>
        \A t \in TargetOnlyRows :
            \E it \in Items :
                /\ it.label = t.label
                /\ it.current_value = 0
                /\ it.action = "buy"
                /\ it.amount = it.target_value

\* C20 amended: with a non-zero total_value such a label appears with
\* current_value 0 and amount |target_value|; its action is buy when its
\* target_pct, rounded to 2 decimals, is above 0.5 and hold otherwise.
\* With total_value 0 the result is empty.
C20_TargetOnlySignal ==
    Rebalanced =>
        IF breakdown.total_value = 0 THEN rebalance.items = << >>
        ELSE
            \A t \in TargetOnlyRows :
                \E it \in Items :
                    /\ it.label = t.label
                    /\ it.current_value = 0
                    /\ it.amount = Abs(it.target_value)
                    /\ it.action = (IF it.target_pct > DriftBand THEN "buy"
                                    ELSE "hold")

\* C20 case: one result with a target-only label that is bought for its
\* whole target value and a target-only label of 0.5 that is held.
C20_Witness ==
    /\ Rebalanced
    /\ breakdown.total_value > 0
    /\ \E a, b \in Items :
           /\ { a.label, b.label } \subseteq { t.label : t \in TargetOnlyRows }
           /\ a.action = "buy"
           /\ a.amount > 0
           /\ a.amount = a.target_value
           /\ b.action = "hold"
           /\ b.target_pct = DriftBand

\* C20 case: a negative total_value, where amount is -target_value.
C20_WitnessNegativeTotal ==
    /\ Rebalanced
    /\ breakdown.total_value < 0
    /\ \E a \in Items :
           /\ a.label \in { t.label : t \in TargetOnlyRows }
           /\ a.target_value < 0
           /\ a.amount = -a.target_value

\* The category part of the summary: the strings of the category list's
\* trade items, as the summary holds them.
CategoryPart == TradeItems(trades.category)

\* C21 as stated: within the category part of the summary every "Sell"
\* string precedes every "Buy" string.
C21_SellBeforeBuy ==
    Suggested =>
        \A i, j \in 1..Len(CategoryPart) :
            (CategoryPart[i].action = "buy" /\ CategoryPart[j].action = "sell")
                => j < i

\* C21 amended: the category part holds one string per sell or buy item in
\* the order of the category list, which is by non-increasing absolute
\* drift whatever the action; a "Buy" string precedes a "Sell" string
\* whenever its item has the larger absolute drift.
C21_CategoryPartInDriftOrder ==
    Suggested =>
        /\ \A i, j \in 1..Len(CategoryPart) :
               (i < j) => Abs(CategoryPart[i].drift) >= Abs(CategoryPart[j].drift)
        /\ LET rest == [ i \in 1..Len(TradeItems(trades.region)) |->
                          RegionText(TradeItems(trades.region)[i]) ]
               part == [ i \in 1..Len(CategoryPart) |->
                          CategoryText(CategoryPart[i]) ]
           IN  (CategoryPart # << >>)
                   => trades.summary = Join(part \o rest, "; ")

\* C21 case: a category part where a "Buy" string stands before a "Sell"
\* string, its item having the strictly larger absolute drift.
C21_Witness ==
    /\ Suggested
    /\ \E i, j \in 1..Len(CategoryPart) :
           /\ i < j
           /\ CategoryPart[i].action = "buy"
           /\ CategoryPart[j].action = "sell"
           /\ Abs(CategoryPart[i].drift) > Abs(CategoryPart[j].drift)

\* The distribution stored for ticker t in dimension d, or the default
\* when no row or an empty distribution is stored.
StoredDistribution(t, d) ==
    LET stored == IF d = "region" THEN classifications[t].region_breakdown
                  ELSE classifications[t].category_breakdown
    IN  IF classifications[t].present /\ stored # << >> THEN stored
        ELSE IF d = "region" THEN << W("US", 100) >>
        ELSE << W("Equities", 100) >>

WeightSum(t, d) == SeqSum(StoredDistribution(t, d), "weight")

\* Sum over the ticker groups of v * s / 100, in fine units.
VerbatimTotalFine(d) ==
    SumFn([ t \in HeldTickers |-> GroupValue(t) * WeightSum(t, d) ], HeldTickers)

\* C22 as stated: weights are applied verbatim, and when the weights of a
\* held ticker sum to something other than 100 the dimension's values sum
\* to something other than total_value.
C22_OffWeightsChangeSum ==
    (Computed /\ breakdown.total_value # 0) =>
        \A d \in Dimensions :
            (\E t \in HeldTickers : WeightSum(t, d) # 100)
                => SeqSum(ByDimension(d), "value") # breakdown.total_value

\* C22 amended: every detail record carries the stored weights unchanged,
\* and the reported values of a dimension sum to the sum over the ticker
\* groups of v * s / 100 to within half a cent per label, whatever s is;
\* a breakdown is returned in every case.
C22_WeightsVerbatim ==
    (Computed /\ breakdown.total_value # 0) =>
        /\ Len(breakdown.holdings) = Cardinality(HeldTickers)
        /\ \A d \in Dimensions :
               /\ \A t \in HeldTickers :
                      DetailDistribution(t, d) = StoredDistribution(t, d)
               /\ 2 * Abs(SeqSum(ByDimension(d), "value") * 100 - VerbatimTotalFine(d))
                      <= 100 * Len(ByDimension(d))

\* C22 case: a ticker of non-zero value with region weights summing to 80
\* and category weights summing to 120; the region values sum to less and
\* the category values to more than total_value.
C22_Witness ==
    /\ Computed
    /\ breakdown.total_value > 0
    /\ \E t \in HeldTickers :
           /\ GroupValue(t) > 0
           /\ WeightSum(t, "region") = 80
           /\ WeightSum(t, "category") = 120
    /\ SeqSum(breakdown.by_region, "value") < breakdown.total_value
    /\ SeqSum(breakdown.by_category, "value") > breakdown.total_value

\* C22 case: weights summing to 80 and yet values summing to total_value.
C22_WitnessSameSum ==
    /\ Computed
    /\ breakdown.total_value # 0
    /\ \E t \in HeldTickers : GroupValue(t) # 0 /\ WeightSum(t, "region") = 80
    /\ SeqSum(breakdown.by_region, "value") = breakdown.total_value

\* C23: in every reachable state of the target store no two stored rows
\* share the same (dimension, label) pair, whatever save_targets requests
\* were made, those naming a label twice included.
C23_UniqueDimensionLabel ==
    \A t1, t2 \in targets :
        (t1.dimension = t2.dimension /\ t1.label = t2.label) => t1 = t2

\* C23 case: a request naming a label twice with different percentages
\* has failed, and its dimension holds several rows.
C23_Witness ==
    /\ request.status = 500
    /\ \E i, j \in 1..Len(request.allocations) :
           /\ i < j
           /\ request.allocations[i].label = request.allocations[j].label
           /\ request.allocations[i].target_pct # request.allocations[j].target_pct
    /\ Cardinality(StoredRows(targets, request.dimension)) >= 2

\* The stored target_pct values of a dimension, summed (milli-percent).
StoredSum(tgts, d) ==
    SumFn([ t \in StoredRows(tgts, d) |-> t.target_pct ], StoredRows(tgts, d))

\* C28: after any sequence of save_targets requests the stored target_pct
\* values of each dimension are the empty set or sum to within 1 of 100; a
\* dimension's targets, once set, are never cleared back to empty, and a
\* request with an empty allocation list is rejected.
C28_TargetSums ==
    /\ [](\A d \in Dimensions :
             \/ StoredRows(targets, d) = {}
             \/ Abs(StoredSum(targets, d) - 100000) <= 1000)
    /\ [][ /\ \A d \in Dimensions :
                 (StoredRows(targets, d) # {}) => (StoredRows(targets', d) # {})
           /\ (request'.allocations = << >>) => (request'.status = 400) ]_vars

\* C28 case: an empty allocation list was rejected while targets of its
\* dimension are stored, and the other dimension holds a saved set whose
\* sum is at the edge of the tolerance (101).
C28_Witness ==
    /\ request.allocations = << >>
    /\ request.status = 400
    /\ request.dimension = "region"
    /\ StoredRows(targets, "region") # {}
    /\ StoredSum(targets, "category") = 101000

\* The position of a label in ascending label order.
LabelRank(label) == CHOOSE a \in 1..Len(LabelOrder) : LabelOrder[a] = label

\* A sequence back to front.
ReverseSeq(seq) == [ i \in 1..Len(seq) |-> seq[Len(seq) + 1 - i] ]

\* The breakdown with its two label maps iterated in the opposite order.
ReversedBreakdown ==
    [ breakdown EXCEPT !.by_region   = ReverseSeq(breakdown.by_region),
                       !.by_category = ReverseSeq(breakdown.by_category) ]

\* C29: in every list compute_rebalance returns, items of equal |drift|
\* stand in ascending label order, and the list is the same when the
\* breakdown maps are iterated in the opposite order (the target rows are
\* an unordered set throughout).
C29_TiesInLabelOrder ==
    /\ \A items \in RebalanceLists :
           \A i, j \in 1..Len(items) :
               (i < j /\ Abs(items[i].drift) = Abs(items[j].drift))
                   => LabelRank(items[i].label) < LabelRank(items[j].label)
    /\ Suggested =>
           /\ trades.region = compute_rebalance(ReversedBreakdown, "region", targets)
           /\ trades.category = compute_rebalance(ReversedBreakdown, "category", targets)

\* C29 case: two category items of equal non-zero |drift| whose labels the
\* breakdown lists in descending label order.
C29_Witness ==
    /\ Suggested
    /\ \E i, j \in 1..Len(trades.category) :
           /\ i < j
           /\ trades.category[i].drift # 0
           /\ Abs(trades.category[i].drift) = Abs(trades.category[j].drift)
           /\ LET a == IndexOf(breakdown.by_category, "label", trades.category[i].label)
                  b == IndexOf(breakdown.by_category, "label", trades.category[j].label)
              IN  a > b /\ b > 0

\* C30 as stated: with a positive total value, every "sell" item reports a
\* current_value strictly above its target_value and every "buy" item one
\* strictly below.
C30_StrictlyApart ==
    (Suggested /\ breakdown.total_value > 0) =>
        \A items \in RebalanceLists : \A i \in 1..Len(items) :
            /\ (items[i].action = "sell")
                   => items[i].current_value > items[i].target_value
            /\ (items[i].action = "buy")
                   => items[i].current_value < items[i].target_value

\* C30: with a positive total value, a "sell" item never reports a
\* current_value below its target_value and a "buy" item never one above
\* it; the two differ whenever the total value is at least 2.00, and can be
\* reported equal (both rounded to the same cent) only below that.
C30_ActionMatchesValues ==
    (Suggested /\ breakdown.total_value > 0) =>
        \A items \in RebalanceLists : \A i \in 1..Len(items) :
            /\ (items[i].action = "sell")
                   => items[i].current_value >= items[i].target_value
            /\ (items[i].action = "buy")
                   => items[i].current_value <= items[i].target_value
            /\ (items[i].action # "hold" /\ breakdown.total_value >= 200)
                   => items[i].current_value # items[i].target_value

\* C30 case: under a positive total a "sell" item reports equal current and
\* target values, next to a "buy" item whose values differ.
C30_Witness ==
    /\ Suggested
    /\ breakdown.total_value > 0
    /\ \E items \in RebalanceLists :
           /\ \E i \in 1..Len(items) :
                  /\ items[i].action = "sell"
                  /\ items[i].current_value = items[i].target_value
           /\ \E i \in 1..Len(items) :
                  /\ items[i].action = "buy"
                  /\ items[i].current_value < items[i].target_value

\* C30 case: a total of at least 2.00 with a "sell" and a "buy" item.
C30_WitnessLargeTotal ==
    /\ Suggested
    /\ breakdown.total_value >= 200
    /\ \E items \in RebalanceLists :
           /\ \E i \in 1..Len(items) :
                  /\ items[i].action = "sell"
                  /\ items[i].current_value > items[i].target_value
           /\ \E i \in 1..Len(items) :
                  /\ items[i].action = "buy"
                  /\ items[i].current_value < items[i].target_value

\* Vocabulary of the store properties.
SnapshotIds == { s.id : s \in snapshots }

\* s is the snapshot of brokerage b that every other one of b is older than.
IsLatestOf(s, b) ==
    /\ s \in snapshots
    /\ s.brokerage = b
    /\ \A o \in snapshots :
           (o.brokerage = b /\ o # s) =>
               \/ o.snapshot_date < s.snapshot_date
               \/ (o.snapshot_date = s.snapshot_date /\ o.id < s.id)

\* The last request was a breakdown without ?date=.
UndatedRead == response.op = "breakdown" /\ response.arg = ""

\* C24: whatever uploads, snapshot deletions and date changes came before,
\* the holdings of a breakdown without a date are, for each brokerage, the
\* holdings of its snapshot with the greatest (snapshot_date, id), none
\* where it has no snapshot; no stored holding belongs to a deleted snapshot.
C24_LatestPerBrokerage ==
    /\ \A i \in 1..Len(holding_rows) : holding_rows[i].snapshot_id \in SnapshotIds
    /\ UndatedRead =>
           \A b \in { "fidelity", "schwab" } :
               LET used == SelectSeq(holdings, LAMBDA h : h.brokerage = b)
               IN  IF \E s \in snapshots : s.brokerage = b
                   THEN \E s \in snapshots :
                            /\ IsLatestOf(s, b)
                            /\ Len(used) = s.holding_count
                            /\ \A i \in 1..Len(used) : used[i].snapshot_id = s.id
                   ELSE used = << >>

\* C24 case: an undated read while a brokerage has two snapshots and the
\* one with the later date has the smaller id.
C24_Witness ==
    /\ UndatedRead
    /\ \E s, o \in snapshots :
           /\ s.brokerage = o.brokerage
           /\ s.id < o.id
           /\ s.snapshot_date > o.snapshot_date
           /\ holdings # << >>
           /\ \A i \in 1..Len(holdings) : holdings[i].snapshot_id = s.id

\* C24 case: an undated read after the newer of two snapshots of a
\* brokerage was deleted.
C24_WitnessDeleted ==
    /\ UndatedRead
    /\ snapshot_seq = 2
    /\ SnapshotIds = { 1 }
    /\ holdings # << >>

\* The uploads the handler has to reject, told from the request alone.
RejectedInput(file, b, d) ==
    \/ file = NoFile
    \/ b = "vanguard"
    \/ d = "01/02/2024"
    \/ file = FileNoHeader
    \/ file = FileNoPositions

\* The tickers of the positions of a stored file, in file order.
PositionsOfFile(filename) ==
    IF filename = "vti.csv" THEN << "VTI" >>
    ELSE IF filename = "mixed.csv" THEN << "VXUS", "TLT" >>
    ELSE IF filename = "twice.csv" THEN << "VTI", "VTI" >>
    ELSE << >>

\* C27: an upload without a file, with a brokerage other than fidelity or
\* schwab, with an invalid date, without a header row or without a parsed
\* holding is answered 400 and leaves snapshots, holdings and
\* classifications as they were; every stored snapshot has all the
\* holdings parsed from its file, and every holding its snapshot.
C27_RejectedUploadStoresNothing ==
    /\ [](/\ \A s \in snapshots :
                LET own == SelectSeq(holding_rows, LAMBDA h : h.snapshot_id = s.id)
                IN  /\ Len(own) = s.holding_count
                    /\ Len(own) >= 1
                    /\ [ i \in 1..Len(own) |-> own[i].ticker ]
                           = PositionsOfFile(s.filename)
                    /\ \A i \in 1..Len(own) : own[i].brokerage = s.brokerage
          /\ \A i \in 1..Len(holding_rows) :
                holding_rows[i].snapshot_id \in SnapshotIds)
    /\ [][ (response'.op = "upload") =>
              \/ /\ response'.status = 400
                 /\ snapshots' = snapshots
                 /\ holding_rows' = holding_rows
                 /\ snapshot_seq' = snapshot_seq
                 /\ ticker_classifications' = ticker_classifications
                 /\ classifications' = classifications
              \/ \A file \in FileChoices, b \in BrokerageFields,
                    d \in DateStrings, today \in Dates :
                     ~(/\ RejectedInput(file, b, d)
                       /\ UploadCsv(file, b, d, today, "nokey", "nokey")) ]_vars

\* C27 case: a file without a header row was rejected while a snapshot is
\* stored.
C27_Witness ==
    /\ response.op = "upload"
    /\ response.status = 400
    /\ upload = FileNoHeader.rows
    /\ snapshots # {}
    /\ Len(holding_rows) >= 1

\* The rows of a date in the analyses table.
AnalysesOf(rows, d) == SelectSeq(rows, LAMBDA r : r.snapshot_date = d)

\* C26: a request that saves an analysis leaves exactly one row for its
\* date, holding the text it returned, and the rows of every other date as
\* they were; no date ever has two rows, and a breakdown of a date shows
\* the text of that row.
C26_OneAnalysisPerDate ==
    /\ [](/\ \A i, j \in 1..Len(analyses) :
                (i # j) => analyses[i].snapshot_date # analyses[j].snapshot_date
          /\ \A d \in Dates :
                (response.op = "breakdown" /\ response.arg = IsoDates[d]) =>
                    \/ /\ AnalysesOf(analyses, d) = << >>
                       /\ response.analysis = ""
                    \/ /\ Len(AnalysesOf(analyses, d)) = 1
                       /\ response.analysis = AnalysesOf(analyses, d)[1].analysis)
    /\ [][ (response'.op \in { "upload", "analyze" } /\ response'.status = 200) =>
              \E d \in Dates :
                  /\ Len(AnalysesOf(analyses', d)) = 1
                  /\ AnalysesOf(analyses', d)[1].analysis = response'.analysis
                  /\ analyses'[Len(analyses')].snapshot_date = d
                  /\ \A e \in Dates \ { d } :
                         AnalysesOf(analyses', e) = AnalysesOf(analyses, e) ]_vars

\* C26 case: the analysis of the first date was saved again, by an analyze
\* request, after the one of the second date; both dates keep one row.
C26_Witness ==
    /\ response.op = "analyze"
    /\ response.status = 200
    /\ response.arg = IsoDates[1]
    /\ response.analysis = "text B"
    /\ Len(analyses) = 2
    /\ analyses[1].snapshot_date = 2
    /\ analyses[1].analysis = "text A"
    /\ analyses[2] = [snapshot_date |-> 1, analysis |-> "text B"]

\* The rows of a ticker in the classification table.
ClassRowsOf(table, t) == { c \in table : c.ticker = t }

\* C25: a ticker that has a stored classification keeps its row through
\* every request other than a manual update or a reclassification of that
\* ticker, uploads naming it included; the table never holds two rows of
\* one ticker.
C25_ClassificationsAreKept ==
    /\ [](\A r1, r2 \in ticker_classifications :
              (r1.ticker = r2.ticker) => r1 = r2)
    /\ [][ \A t \in Tickers :
              (/\ ClassRowsOf(ticker_classifications, t) # {}
               /\ ~(response'.op \in { "classification", "reclassify" }
                    /\ response'.arg = t))
                  => /\ ClassRowsOf(ticker_classifications', t)
                            = ClassRowsOf(ticker_classifications, t)
                     /\ classifications'[t] = classifications[t] ]_vars

\* C25 case: a file naming VTI on two rows was uploaded after VTI was
\* classified by hand; the manual row is still the stored one.
C25_Witness ==
    /\ response.op = "upload"
    /\ response.status = 200
    /\ upload = FileTwice.rows
    /\ \E c \in ticker_classifications :
           /\ c.ticker = "VTI"
           /\ c.source = "manual"
           /\ c.region_breakdown = << W("US", 50), W("DM", 50) >>
    /\ \E c \in ticker_classifications : c.ticker = "TLT"

\* C25 case: the same file uploaded while VTI has no row: the request
\* fails on the unique ticker and no VTI row is stored.
C25_WitnessDuplicate ==
    /\ response.op = "upload"
    /\ response.status = 500
    /\ upload = FileTwice.rows
    /\ ClassRowsOf(ticker_classifications, "VTI") = {}
    /\ snapshots # {}

====
